---- MODULE Spec2Model ----
(***************************************************************************)
(* Model of the insurance intake checker's carrier evaluation:             *)
(*   - the boolean rule-table evaluator (server/carrierAnalysis.ts:        *)
(*     CARRIER_RULES, evaluateCarrier, normalizeDataForRules,              *)
(*     buildChecklist);                                                    *)
(*   - the six guideline evaluators (unnamed/part_001);                    *)
(*   - the report text and the intake.submit procedure with its insert     *)
(*     and its notification (unnamed/part_000,                             *)
(*     server/emailNotification.ts, drizzle/schema.ts);                    *)
(*   - both report renderers (generateCarrierAnalysisText of               *)
(*     server/carrierAnalysis.ts and of unnamed/part_001);                 *)
(*   - a process that calls the evaluator and its report several times     *)
(*     (specification SpecCalls);                                          *)
(*   - the form's BMI (specification SpecHome) and its submission          *)
(*     (specification SpecForm), client/src/pages/Home.tsx.                *)
(*                                                                         *)
(* Conventions.                                                            *)
(*   JavaScript values are tagged records: a number carries its value in   *)
(*   tenths (field x10), so that the one-decimal BMI string and the        *)
(*   integer fields share one arithmetic; undefined, null and NaN are      *)
(*   their own values; an enumerated string is [t |-> "string", s |-> _];  *)
(*   a free-text string is [t |-> "string", cs |-> <<characters>>].        *)
(*   A message is [rule |-> tag of the code site, text |-> the pieces      *)
(*   whose concatenation is the source string], literal thresholds and     *)
(*   interpolated values being pieces of their own.  Non-ASCII characters  *)
(*   of the source strings are transliterated: the section sign is "S.",   *)
(*   the multiplication sign "x", the arrow "->"; status emoji are         *)
(*   dropped.                                                              *)
(***************************************************************************)
EXTENDS Integers, Sequences, FiniteSets

VARIABLES data, called, ret, pc, local, db, notifications,
          rules, allocated, results, submitted, mutations, toast

vars == <<data, called, ret, pc, local, db, notifications,
          rules, allocated, results, submitted, mutations, toast>>

\* the state of the intake.submit handler and of its collaborators
server == <<pc, local, db, notifications>>
\* the module-level rule table of server/carrierAnalysis.ts as the process
\* holds it, the number of arrays the process has allocated, and the
\* results its calls have returned so far
engine == <<rules, allocated, results>>
\* the state of the Home component next to its form fields: the submitted
\* flag, the mutations it has issued, the last toast it has shown
client == <<submitted, mutations, toast>>

(***************************************************************************)
(* Bounds of the model.                                                    *)
(***************************************************************************)
\* number of fields of the applicant record that differ from the form's
\* default record
MaxEdits == 2
\* the largest height (inches) and weight (pounds) typed into the form,
\* next to the form's initial 70 and 190 and a few adult values
MaxHeightIn == 12
MaxWeightLb == 12
\* number of calls one process makes to the evaluator and its report
MaxCalls == 3
\* number of submit mutations one form issues
MaxMutations == 3

(***************************************************************************)
(* JavaScript values and operators.                                        *)
(***************************************************************************)
Num(k) == [t |-> "number", x10 |-> 10 * k]
Dec(tenths) == [t |-> "number", x10 |-> tenths]
Undefined == [t |-> "undefined"]
Null == [t |-> "null"]
NaN == [t |-> "NaN"]
Str(s) == [t |-> "string", s |-> s]
Chars(cs) == [t |-> "string", cs |-> cs]

\* the element of a one-element set: TheOne({F(x) : x \in {e}}) is F(e)
\* with e evaluated once, as a JavaScript argument is
TheOne(S) == CHOOSE x \in S : TRUE

IsNum(v) == v.t = "number"
IsEnum(v) == v.t = "string" /\ "s" \in DOMAIN v
IsChars(v) == v.t = "string" /\ "cs" \in DOMAIN v

DigitChars == <<"0", "1", "2", "3", "4", "5", "6", "7", "8", "9">>
IsDigit(c) == \E i \in 1..10 : DigitChars[i] = c
DigitVal(c) == (CHOOSE i \in 1..10 : DigitChars[i] = c) - 1
WhiteSpace == {" ", "\t", "\n"}

RECURSIVE DigitsVal(_)
\* value of a sequence of digit characters
DigitsVal(cs) ==
  IF cs = <<>> THEN 0
  ELSE 10 * DigitsVal(SubSeq(cs, 1, Len(cs) - 1)) + DigitVal(cs[Len(cs)])

\* length of the longest prefix of cs made of digits
DigitPrefix(cs) ==
  IF \E i \in 1..Len(cs) : ~IsDigit(cs[i])
  THEN (CHOOSE i \in 1..Len(cs) :
          ~IsDigit(cs[i]) /\ \A j \in 1..(i - 1) : IsDigit(cs[j])) - 1
  ELSE Len(cs)

RECURSIVE trim(_)
\* String.prototype.trim
trim(cs) ==
  IF cs = <<>> THEN cs
  ELSE IF cs[1] \in WhiteSpace THEN trim(Tail(cs))
  ELSE IF cs[Len(cs)] \in WhiteSpace THEN trim(SubSeq(cs, 1, Len(cs) - 1))
  ELSE cs

\* parseFloat on a character string, for decimals of at most one fraction
\* digit: the longest numeric prefix after leading white space, else NaN
parseFloat(v) ==
  IF ~IsChars(v) THEN (IF IsNum(v) THEN v ELSE NaN)
  ELSE LET cs == trim(v.cs)
           n  == DigitPrefix(cs)
           rest == SubSeq(cs, n + 1, Len(cs))
       IN  IF n = 0 THEN NaN
           ELSE IF Len(rest) >= 2 /\ rest[1] = "." /\ IsDigit(rest[2])
                THEN Dec(10 * DigitsVal(SubSeq(cs, 1, n)) + DigitVal(rest[2]))
                ELSE Dec(10 * DigitsVal(SubSeq(cs, 1, n)))

\* Number(v): ToNumber; a string must be numeric as a whole ("" is 0)
Number(v) ==
  CASE v.t = "number"    -> v
    [] v.t = "null"      -> Num(0)
    [] v.t = "undefined" -> NaN
    [] v.t = "NaN"       -> NaN
    [] IsEnum(v)         -> NaN
    [] IsChars(v)        ->
         TheOne({TheOne({
           LET rest == SubSeq(cs, n + 1, Len(cs))
           IN  IF cs = <<>> THEN Num(0)
               ELSE IF n = 0 THEN NaN
               ELSE IF rest = <<>> THEN Dec(10 * DigitsVal(cs))
               ELSE IF Len(rest) = 2 /\ rest[1] = "." /\ IsDigit(rest[2])
                    THEN Dec(10 * DigitsVal(SubSeq(cs, 1, n)) + DigitVal(rest[2]))
                    ELSE NaN
           : n \in {DigitPrefix(cs)}}) : cs \in {trim(v.cs)}})

\* ToBoolean
Truthy(v) ==
  CASE v.t = "number"    -> v.x10 # 0
    [] v.t = "null"      -> FALSE
    [] v.t = "undefined" -> FALSE
    [] v.t = "NaN"       -> FALSE
    [] IsEnum(v)         -> v.s # ""
    [] IsChars(v)        -> v.cs # <<>>

\* a > b, a < b, a <= b, a >= b on ToNumber of both sides; false on NaN
Gt(a, b) == LET x == Number(a) y == Number(b) IN IsNum(x) /\ IsNum(y) /\ x.x10 > y.x10
\* a < b with a not-a-number operand taken as 0, as Number(v) || 0 gives
Lt_NaNAsZero(a, b) ==
  LET x == IF IsNum(Number(a)) THEN Number(a) ELSE Num(0)
      y == IF IsNum(Number(b)) THEN Number(b) ELSE Num(0)
  IN  x.x10 < y.x10
Lt(a, b) == LET x == Number(a) y == Number(b) IN IsNum(x) /\ IsNum(y) /\ x.x10 < y.x10
Le(a, b) == LET x == Number(a) y == Number(b) IN IsNum(x) /\ IsNum(y) /\ x.x10 <= y.x10
Ge(a, b) == LET x == Number(a) y == Number(b) IN IsNum(x) /\ IsNum(y) /\ x.x10 >= y.x10

\* a * k for an integer literal k
Mul(a, k) == LET x == Number(a) IN IF IsNum(x) THEN Dec(x.x10 * k) ELSE NaN

\* a || b
Or(a, b) == IF Truthy(a) THEN a ELSE b

Digit(d) == DigitChars[d + 1]

RECURSIVE NatStr(_)
\* decimal digits of a natural number
NatStr(n) == IF n < 10 THEN Digit(n) ELSE NatStr(n \div 10) \o Digit(n % 10)

Pad3(n) == Digit(n \div 100) \o Digit((n \div 10) % 10) \o Digit(n % 10)

RECURSIVE Grouped(_)
\* digits of a natural number in groups of three separated by commas
Grouped(n) == IF n < 1000 THEN NatStr(n) ELSE Grouped(n \div 1000) \o "," \o Pad3(n % 1000)

RECURSIVE Concat(_)
Concat(cs) == IF cs = <<>> THEN "" ELSE cs[1] \o Concat(Tail(cs))

\* ToString, as string concatenation and template literals apply it
ToString(v) ==
  CASE v.t = "number"    ->
         LET a == IF v.x10 < 0 THEN -v.x10 ELSE v.x10
             body == IF a % 10 = 0 THEN NatStr(a \div 10)
                     ELSE NatStr(a \div 10) \o "." \o Digit(a % 10)
         IN  IF v.x10 < 0 THEN "-" \o body ELSE body
    [] v.t = "null"      -> "null"
    [] v.t = "undefined" -> "undefined"
    [] v.t = "NaN"       -> "NaN"
    [] IsEnum(v)         -> v.s
    [] IsChars(v)        -> Concat(v.cs)

\* Intl.NumberFormat("en-US", {style: "currency", currency: "USD",
\* maximumFractionDigits: 0}).format(Number(n || 0)): rounds half away
\* from zero to a whole number of dollars.  carrierAnalysis.ts passes no
\* locale (the runtime's default); it is taken to be en-US as well.
fmtUSD(n) ==
  LET x == Number(Or(n, Num(0)))
  IN  IF ~IsNum(x) THEN "$NaN"
      ELSE LET a == IF x.x10 < 0 THEN -x.x10 ELSE x.x10
               r == (a + 5) \div 10
           IN  IF x.x10 < 0 /\ r > 0 THEN "-$" \o Grouped(r) ELSE "$" \o Grouped(r)

Msg(rule, text) == [rule |-> rule, text |-> text]

\* includes that takes a missing value as found
includes_UndefinedFound(list, v) == v = Undefined \/ \E i \in 1..Len(list) : Str(list[i]) = v

\* Array.prototype.includes on a list of strings
includes(list, v) == \E i \in 1..Len(list) : Str(list[i]) = v

(***************************************************************************)
(* server/carrierAnalysis.ts: the rule table and the boolean evaluator.    *)
(***************************************************************************)
\* declineReasons of "nlg" with the DUI boundary written < 1 instead of <= 1
declineReasons_nlg_DuiStrict(n) ==
  (IF Gt(n.age, Num(80)) THEN <<Msg("age", <<"Age over maximum (", "80", ")">>)>> ELSE <<>>)
  \o (IF n.duiYears # Null /\ Lt(n.duiYears, Num(1))
      THEN <<Msg("dui", <<"DUI within 12 months">>)>> ELSE <<>>)
  \o (IF n.bankruptcyYears # Null /\ Lt(n.bankruptcyYears, Num(1))
      THEN <<Msg("bankruptcy", <<"Bankruptcy within 12 months">>)>> ELSE <<>>)
  \o (IF n.travelHighRisk THEN <<Msg("travel", <<"High-risk travel disclosed">>)>> ELSE <<>>)

declineReasons_nlg(n) ==
  (IF Gt(n.age, Num(80)) THEN <<Msg("age", <<"Age over maximum (", "80", ")">>)>> ELSE <<>>)
  \o (IF n.duiYears # Null /\ Le(n.duiYears, Num(1))
      THEN <<Msg("dui", <<"DUI within 12 months">>)>> ELSE <<>>)
  \o (IF n.bankruptcyYears # Null /\ Lt(n.bankruptcyYears, Num(1))
      THEN <<Msg("bankruptcy", <<"Bankruptcy within 12 months">>)>> ELSE <<>>)
  \o (IF n.travelHighRisk THEN <<Msg("travel", <<"High-risk travel disclosed">>)>> ELSE <<>>)

declineReasons_mutual_of_omaha(n) ==
  (IF Gt(n.age, Num(75)) THEN <<Msg("age", <<"Age over maximum (", "75", ")">>)>> ELSE <<>>)
  \o (IF n.cancerHistoryYears # Null /\ Lt(n.cancerHistoryYears, Num(2))
      THEN <<Msg("cancer", <<"Cancer treatment within 24 months">>)>> ELSE <<>>)
  \o (IF n.uncontrolledDiabetes
      THEN <<Msg("diabetes", <<"Uncontrolled diabetes disclosed">>)>> ELSE <<>>)
  \o (IF Truthy(n.bmi) /\ Gt(n.bmi, Num(50))
      THEN <<Msg("bmi", <<"BMI above program limits">>)>> ELSE <<>>)

declineReasons_ameritas(n) ==
  (IF Gt(n.age, Num(80)) THEN <<Msg("age", <<"Age over maximum (", "80", ")">>)>> ELSE <<>>)
  \o (IF n.hazardousOccupation
      THEN <<Msg("occupation", <<"Hazardous occupation risk">>)>> ELSE <<>>)
  \o (IF n.avocationRisk
      THEN <<Msg("avocation", <<"High-risk avocation (diving, aviation, etc.)">>)>> ELSE <<>>)

declineReasons_lafayette_life(n) ==
  (IF Gt(n.age, Num(85)) THEN <<Msg("age", <<"Age over maximum (", "85", ")">>)>> ELSE <<>>)
  \o (IF n.uncontrolledHypertension
      THEN <<Msg("hypertension", <<"Uncontrolled hypertension">>)>> ELSE <<>>)
  \o (IF n.insulinDependent
      THEN <<Msg("insulin", <<"Insulin-dependent diabetes (program specific)">>)>> ELSE <<>>)

declineReasons_transamerica(n) ==
  (IF Gt(n.age, Num(79)) THEN <<Msg("age", <<"Age over maximum (", "79", ")">>)>> ELSE <<>>)
  \o (IF n.felonyYears # Null /\ Lt(n.felonyYears, Num(2))
      THEN <<Msg("felony", <<"Felony conviction within 24 months">>)>> ELSE <<>>)

declineReasons_american_amicable(n) ==
  (IF Gt(n.age, Num(85)) THEN <<Msg("age", <<"Age over maximum (", "85", ")">>)>> ELSE <<>>)
  \o (IF n.copd THEN <<Msg("copd", <<"COPD disclosed">>)>> ELSE <<>>)
  \o (IF n.heartEventYears # Null /\ Lt(n.heartEventYears, Num(1))
      THEN <<Msg("heart", <<"Heart attack/stent within 12 months">>)>> ELSE <<>>)

CARRIER_RULES == <<
  [id |-> "nlg", name |-> "National Life Group",
   products |-> <<"Term", "IUL", "Whole Life">>,
   maxIssueAge |-> 80, minCoverage |-> 25000,
   maxCoverageMultiplierOfIncome |-> 30, tobaccoLookbackYears |-> 2],
  [id |-> "mutual_of_omaha", name |-> "Mutual of Omaha",
   products |-> <<"Term", "Whole Life">>,
   maxIssueAge |-> 75, minCoverage |-> 50000,
   maxCoverageMultiplierOfIncome |-> 25, tobaccoLookbackYears |-> 2],
  [id |-> "ameritas", name |-> "Ameritas",
   products |-> <<"Term", "IUL">>,
   maxIssueAge |-> 80, minCoverage |-> 100000,
   maxCoverageMultiplierOfIncome |-> 30, tobaccoLookbackYears |-> 2],
  [id |-> "lafayette_life", name |-> "Lafayette Life",
   products |-> <<"Whole Life", "IUL">>,
   maxIssueAge |-> 85, minCoverage |-> 25000,
   maxCoverageMultiplierOfIncome |-> 35, tobaccoLookbackYears |-> 2],
  [id |-> "transamerica", name |-> "Transamerica",
   products |-> <<"Term">>,
   maxIssueAge |-> 79, minCoverage |-> 25000,
   maxCoverageMultiplierOfIncome |-> 25, tobaccoLookbackYears |-> 1],
  [id |-> "american_amicable", name |-> "American Amicable",
   products |-> <<"Term", "Whole Life">>,
   maxIssueAge |-> 85, minCoverage |-> 25000,
   maxCoverageMultiplierOfIncome |-> 20, tobaccoLookbackYears |-> 2] >>

Carriers == 1..Len(CARRIER_RULES)

\* carrier.declineReasons(n)
declineReasons(carrier, n) ==
  CASE carrier.id = "nlg"               -> declineReasons_nlg(n)
    [] carrier.id = "mutual_of_omaha"   -> declineReasons_mutual_of_omaha(n)
    [] carrier.id = "ameritas"          -> declineReasons_ameritas(n)
    [] carrier.id = "lafayette_life"    -> declineReasons_lafayette_life(n)
    [] carrier.id = "transamerica"      -> declineReasons_transamerica(n)
    [] carrier.id = "american_amicable" -> declineReasons_american_amicable(n)

\* coerceNum written Number(v || 0): an absent value becomes 0
coerceNum_AbsentAsZero(v) == Number(Or(v, Num(0)))

coerceNum(v) == IF v = Chars(<<>>) \/ v = Str("") \/ v = Undefined \/ v = Null THEN Null ELSE Number(v)

normalizeDataForRules(d) ==
  [age |-> coerceNum(d.age),
   duiYears |-> coerceNum(d.duiYears),
   felonyYears |-> coerceNum(d.felonyYears),
   bankruptcyYears |-> coerceNum(d.bankruptcyYears),
   cancerHistoryYears |-> coerceNum(d.cancerHistoryYears),
   heartEventYears |-> coerceNum(d.heartEventYears),
   bmi |-> coerceNum(d.bmi),
   insulinDependent |-> d.insulinDependent = Str("Yes"),
   uncontrolledDiabetes |-> d.uncontrolledDiabetes = Str("Yes"),
   uncontrolledHypertension |-> d.uncontrolledHypertension = Str("Yes"),
   hazardousOccupation |-> d.hazardousOccupation = Str("Yes"),
   avocationRisk |-> d.avocationRisk = Str("Yes"),
   travelHighRisk |-> d.travelHighRisk = Str("Yes"),
   copd |-> d.copd = Str("Yes")]

\* d.medications?.trim() and d.doctorNames?.trim(), as a condition
TrimTruthy(v) == IsChars(v) /\ trim(v.cs) # <<>>

buildChecklist(d) ==
  <<"Government ID (driver's license or passport)",
    "Proof of income (last 2 pay stubs or last 2 years 1099/W-2)",
    "Beneficiary information">>
  \o (IF Ge(d.coverage, Num(1000000)) THEN <<"Financial justification (income + assets)">> ELSE <<>>)
  \o (IF TrimTruthy(d.medications) THEN <<"Medication list with dosages">> ELSE <<>>)
  \o (IF TrimTruthy(d.doctorNames) THEN <<"Primary/attending physician contact">> ELSE <<>>)
  \o (IF d.productType = Str("IUL") THEN <<"Product illustration acknowledgment">> ELSE <<>>)
  \o (IF d.travelHighRisk = Str("Yes") THEN <<"Travel questionnaire">> ELSE <<>>)
  \o (IF d.avocationRisk = Str("Yes") THEN <<"Avocation questionnaire">> ELSE <<>>)
  \o (IF d.hazardousOccupation = Str("Yes") THEN <<"Occupational risk questionnaire">> ELSE <<>>)

evaluateCarrier(carrier, d) ==
  LET mult == carrier.maxCoverageMultiplierOfIncome
      cap == Mul(d.annualIncome, mult)
      flags ==
        (IF ~includes(carrier.products, d.productType)
         THEN <<Msg("product", <<"Product not offered: ", ToString(d.productType)>>)>>
         ELSE <<>>)
        \o (IF Truthy(d.coverage) /\ Truthy(d.annualIncome) /\ mult # 0 /\ Gt(d.coverage, cap)
            THEN <<Msg("income_cap",
                       <<"Coverage (", fmtUSD(d.coverage), ") exceeds ", carrier.name,
                         "'s income multiple cap (", NatStr(mult), "x = ", fmtUSD(cap), ")">>)>>
            ELSE <<>>)
        \o (IF Truthy(d.coverage) /\ carrier.minCoverage # 0
               /\ Lt(d.coverage, Num(carrier.minCoverage))
            THEN <<Msg("min_coverage",
                       <<"Coverage below minimum (", fmtUSD(Num(carrier.minCoverage)), ")">>)>>
            ELSE <<>>)
        \o (IF Truthy(d.age) /\ carrier.maxIssueAge # 0 /\ Gt(d.age, Num(carrier.maxIssueAge))
            THEN <<Msg("age", <<"Age ", ToString(d.age), " exceeds maximum (",
                                NatStr(carrier.maxIssueAge), ")">>)>>
            ELSE <<>>)
      notes ==
        IF Truthy(d.tobaccoUse) /\ d.tobaccoUse = Str("Yes") /\ d.tobaccoYears # Null
        THEN IF Lt(d.tobaccoYears, Num(carrier.tobaccoLookbackYears))
             THEN <<Msg("tobacco_class",
                        <<"Tobacco use within ", NatStr(carrier.tobaccoLookbackYears),
                          " years -> likely Tobacco class.">>)>>
             ELSE <<Msg("non_tobacco",
                        <<"Tobacco use beyond lookback -> Non-Tobacco class may be considered.">>)>>
        ELSE <<>>
      decline == declineReasons(carrier, normalizeDataForRules(d))
  IN  [eligible |-> Len(decline) = 0 /\ Len(flags) = 0,
       notes |-> notes, flags |-> flags, decline |-> decline,
       checklist |-> buildChecklist(d)]

(***************************************************************************)
(* unnamed/part_001: the guideline evaluators.  Each runs its checks in    *)
(* source order over one result under construction; a check assigns the    *)
(* status and appends to the lists exactly as its branch does.             *)
(***************************************************************************)
PotentiallyEligible == "Potentially Eligible"
NeedsReview == "Needs Review"
NotEligible == "Not Eligible"

NewResult(docs) ==
  [status |-> PotentiallyEligible, citations |-> <<>>, flags |-> <<>>,
   documentChecklist |-> docs, underwritingNotes |-> <<>>]

\* status = "Not Eligible"; citations.push(m)
Decline(r, m) == [r EXCEPT !.status = NotEligible, !.citations = Append(@, m)]
\* a review that sets the status and files its message as a note
Review_AsNote(r, m) == [r EXCEPT !.status = NeedsReview, !.underwritingNotes = Append(@, m)]

\* status = "Needs Review"; flags.push(m)
Review(r, m) == [r EXCEPT !.status = NeedsReview, !.flags = Append(@, m)]
\* flags.push(m), the status left as it is
Flag(r, m) == [r EXCEPT !.flags = Append(@, m)]
\* underwritingNotes.push(m)
Note(r, m) == [r EXCEPT !.underwritingNotes = Append(@, m)]
\* documentChecklist.push(x) for each x of docs
Docs(r, docs) == [r EXCEPT !.documentChecklist = @ \o docs]

Present(v) == v # Undefined /\ v # Null

evaluateNationalLifeGroup(d) ==
  LET G == "NLG Underwriting Guide "
      r0 == NewResult(<<"Government-issued photo ID (driver's license or passport)",
                        "Proof of income (last 2 pay stubs OR last 2 years W-2/1099)",
                        "Beneficiary information (full legal name, DOB, SSN, relationship)">>)
      s1(r) == IF Gt(d.age, Num(80))
               THEN Decline(r, Msg("age", <<G, "S.2.1: Maximum issue age ", "80", ". Applicant age ",
                                             ToString(d.age), " exceeds limit.">>))
               ELSE IF Ge(d.age, Num(75))
               THEN Note(r, Msg("age_senior", <<G, "S.2.1: Age 75-80 requires senior underwriting review.">>))
               ELSE r
      s2(r) == IF ~includes(<<"Term", "IUL", "Whole Life">>, d.productType)
               THEN Decline(r, Msg("product", <<"NLG Product Matrix 2025: ", ToString(d.productType),
                                                 " not offered by National Life Group.">>))
               ELSE r
      maxCoverage == Mul(d.annualIncome, 30)
      s3(r) == IF Gt(d.coverage, maxCoverage)
               THEN Docs(Review(r, Msg("income_cap",
                           <<G, "S.4.2: Coverage ", fmtUSD(d.coverage), " exceeds ", "30", "x income cap (",
                             fmtUSD(maxCoverage), "). Financial justification required.">>)),
                         <<"Financial justification statement (assets, liabilities, estate planning needs)">>)
               ELSE r
      s4(r) == IF Lt(d.coverage, Num(25000))
               THEN Decline(r, Msg("min_coverage", <<G, "S.4.1: Minimum coverage ", "$25,000", ". Requested ",
                                                      fmtUSD(d.coverage), ".">>))
               ELSE r
      s5(r) == IF Ge(d.coverage, Num(1000000))
               THEN Note(Docs(r, <<"Financial underwriting package (tax returns, bank statements, net worth statement)">>),
                         Msg("fin_uw", <<G, "S.4.3: Coverage >=$1M triggers enhanced financial underwriting.">>))
               ELSE r
      s6(r) == IF d.tobaccoUse = Str("Yes")
               THEN IF d.tobaccoYears = Undefined \/ d.tobaccoYears = Null
                    THEN Flag(r, Msg("tobacco_unknown",
                           <<G, "S.6.1: Further clarification required - years since last tobacco use not specified.">>))
                    ELSE IF Lt(d.tobaccoYears, Num(2))
                    THEN Docs(Note(r, Msg("tobacco_class",
                                  <<G, "S.6.1: Tobacco use within 24 months -> Tobacco rate class.">>)),
                              <<"Tobacco questionnaire (type, frequency, cessation date)">>)
                    ELSE Note(r, Msg("non_tobacco",
                           <<G, "S.6.1: Tobacco cessation >24 months -> Non-Tobacco rate class eligible.">>))
               ELSE r
      s7(r) == IF Present(d.heartEventYears)
               THEN IF Lt(d.heartEventYears, Num(1))
                    THEN Decline(r, Msg("heart", <<G, "S.8.4: Heart attack/stent within 12 months -> automatic decline.">>))
                    ELSE IF Lt(d.heartEventYears, Num(2))
                    THEN Docs(Review(r, Msg("heart",
                                  <<G, "S.8.4: Cardiovascular event within 24 months requires senior medical review.">>)),
                              <<"Attending Physician Statement (APS) from cardiologist",
                                "Most recent stress test and echocardiogram results">>)
                    ELSE Docs(Note(r, Msg("heart",
                                  <<G, "S.8.4: Cardiovascular history >24 months -> standard underwriting with APS.">>)),
                              <<"Attending Physician Statement (APS) from treating cardiologist">>)
               ELSE r
      s8(r) == IF Present(d.cancerHistoryYears)
               THEN IF Lt(d.cancerHistoryYears, Num(2))
                    THEN Docs(Review(r, Msg("cancer",
                                  <<G, "S.8.6: Cancer treatment within 24 months requires oncology review.">>)),
                              <<"Oncology records (pathology, staging, treatment protocol)",
                                "Most recent follow-up and surveillance imaging">>)
                    ELSE Docs(Note(r, Msg("cancer",
                                  <<G, "S.8.6: Cancer history >24 months -> case-by-case review based on type/stage.">>)),
                              <<"Cancer history questionnaire",
                                "Attending Physician Statement (APS) from oncologist">>)
               ELSE r
      s9(r) == IF d.uncontrolledDiabetes = Str("Yes")
               THEN Docs(Review(r, Msg("diabetes",
                             <<G, "S.8.2: Uncontrolled diabetes requires medical review and HbA1c verification.">>)),
                         <<"Last 12 months HbA1c results", "Diabetes management questionnaire">>)
               ELSE r
      s10(r) == IF d.insulinDependent = Str("Yes")
                THEN Docs(Note(r, Msg("insulin",
                              <<G, "S.8.2: Insulin-dependent diabetes -> rated or declined based on control and complications.">>)),
                          <<"Endocrinologist APS">>)
                ELSE r
      s11(r) == IF d.uncontrolledHypertension = Str("Yes")
                THEN Docs(Review(r, Msg("hypertension",
                              <<G, "S.8.3: Uncontrolled hypertension requires blood pressure readings and medication compliance verification.">>)),
                          <<"Last 3 blood pressure readings">>)
                ELSE r
      s12(r) == IF d.copd = Str("Yes")
                THEN Docs(Review(r, Msg("copd",
                              <<G, "S.8.5: COPD requires pulmonary function testing and severity assessment.">>)),
                          <<"Pulmonary function test (PFT) results", "Pulmonologist APS">>)
                ELSE r
      s13(r) == IF Present(d.duiYears) /\ Le(d.duiYears, Num(1))
                THEN Decline(r, Msg("dui", <<G, "S.10.1: DUI within 12 months -> automatic decline.">>))
                ELSE IF Present(d.duiYears) /\ Lt(d.duiYears, Num(3))
                THEN Review(r, Msg("dui", <<G, "S.10.1: DUI within 36 months requires risk assessment.">>))
                ELSE r
      s14(r) == IF Present(d.felonyYears) /\ Lt(d.felonyYears, Num(2))
                THEN Review(r, Msg("felony", <<G, "S.10.2: Felony conviction within 24 months requires legal review.">>))
                ELSE r
      s15(r) == IF Present(d.bankruptcyYears) /\ Lt(d.bankruptcyYears, Num(1))
                THEN Decline(r, Msg("bankruptcy", <<G, "S.10.3: Bankruptcy within 12 months -> automatic decline.">>))
                ELSE r
      s16(r) == IF d.hazardousOccupation = Str("Yes")
                THEN Docs(Review(r, Msg("occupation",
                              <<G, "S.11.1: Hazardous occupation requires occupational questionnaire and rating assessment.">>)),
                          <<"Occupational duties questionnaire">>)
                ELSE r
      s17(r) == IF d.avocationRisk = Str("Yes")
                THEN Docs(Review(r, Msg("avocation",
                              <<G, "S.11.2: High-risk avocation (aviation, diving, climbing) requires avocation questionnaire.">>)),
                          <<"Avocation questionnaire (frequency, training, safety measures)">>)
                ELSE r
      s18(r) == IF d.travelHighRisk = Str("Yes")
                THEN Docs(Review(r, Msg("travel",
                              <<G, "S.11.3: High-risk travel requires destination and duration disclosure.">>)),
                          <<"Foreign travel questionnaire">>)
                ELSE r
      s19(r) == IF Truthy(d.medications) /\ TrimTruthy(d.medications)
                THEN Note(Docs(r, <<"Complete medication list with dosages and prescribing physicians">>),
                          Msg("medications",
                              <<G, "S.7.1: All medications subject to underwriting review for underlying conditions.">>))
                ELSE r
      s20(r) == IF Truthy(d.doctorNames) /\ TrimTruthy(d.doctorNames)
                THEN Note(r, Msg("physician",
                              <<G, "S.7.2: Physician disclosure triggers APS request for medical history verification.">>))
                ELSE r
  IN  s20(s19(s18(s17(s16(s15(s14(s13(s12(s11(s10(s9(s8(s7(s6(s5(s4(s3(s2(s1(r0))))))))))))))))))))

evaluateMutualOfOmaha(d) ==
  LET G == "MOO Underwriting Manual "
      r0 == NewResult(<<"Government-issued photo ID",
                        "Income verification (pay stubs or tax returns)",
                        "Beneficiary details">>)
      s1(r) == IF Gt(d.age, Num(75))
               THEN Decline(r, Msg("age", <<G, "S.1.2: Maximum issue age ", "75", ". Applicant age ",
                                             ToString(d.age), " exceeds limit.">>))
               ELSE r
      s2(r) == IF ~includes(<<"Term", "Whole Life">>, d.productType)
               THEN Decline(r, Msg("product", <<"MOO Product Guide 2025: ", ToString(d.productType),
                                                 " not available. Mutual of Omaha offers Term and Whole Life only.">>))
               ELSE r
      s3(r) == IF Lt(d.coverage, Num(50000))
               THEN Decline(r, Msg("min_coverage", <<G, "S.3.1: Minimum face amount ", "$50,000", ". Requested ",
                                                      fmtUSD(d.coverage), ".">>))
               ELSE r
      maxCoverage == Mul(d.annualIncome, 25)
      s4(r) == IF Gt(d.coverage, maxCoverage)
               THEN Docs(Review(r, Msg("income_cap",
                           <<G, "S.3.2: Coverage exceeds ", "25", "x income (", fmtUSD(maxCoverage),
                             "). Financial underwriting required.">>)),
                         <<"Financial needs analysis">>)
               ELSE r
      bmiValue == parseFloat(d.bmi)
      s5(r) == IF IsNum(bmiValue) /\ Gt(bmiValue, Num(50))
               THEN Decline(r, Msg("bmi", <<G, "S.5.3: BMI ", ToString(d.bmi),
                                             " exceeds maximum (", "50", "). Automatic decline.">>))
               ELSE IF IsNum(bmiValue) /\ Gt(bmiValue, Num(40))
               THEN Docs(Review(r, Msg("bmi", <<G, "S.5.3: BMI ", ToString(d.bmi),
                                                 " requires obesity assessment and comorbidity review.">>)),
                         <<"Weight history and management plan">>)
               ELSE r
      s6(r) == IF d.tobaccoUse = Str("Yes")
               THEN IF d.tobaccoYears = Undefined \/ d.tobaccoYears = Null
                    THEN Flag(r, Msg("tobacco_unknown",
                           <<G, "S.4.1: Further clarification required - tobacco cessation date not provided.">>))
                    ELSE IF Lt(d.tobaccoYears, Num(2))
                    THEN Note(r, Msg("tobacco_class", <<G, "S.4.1: Tobacco use within 24 months -> Tobacco rate class.">>))
                    ELSE Note(r, Msg("non_tobacco", <<G, "S.4.1: Tobacco-free >24 months -> Non-Tobacco rates apply.">>))
               ELSE r
      s7(r) == IF Present(d.cancerHistoryYears)
               THEN IF Lt(d.cancerHistoryYears, Num(2))
                    THEN Decline(r, Msg("cancer", <<G, "S.6.4: Cancer treatment within 24 months -> automatic decline.">>))
                    ELSE IF Lt(d.cancerHistoryYears, Num(5))
                    THEN Docs(Review(r, Msg("cancer",
                                  <<G, "S.6.4: Cancer history 2-5 years requires oncology review and staging verification.">>)),
                              <<"Oncology APS with pathology and staging">>)
                    ELSE Docs(Note(r, Msg("cancer",
                                  <<G, "S.6.4: Cancer history >5 years -> standard underwriting with medical records.">>)),
                              <<"Cancer treatment summary">>)
               ELSE r
      s8(r) == IF d.uncontrolledDiabetes = Str("Yes")
               THEN Decline(r, Msg("diabetes", <<G, "S.6.2: Uncontrolled diabetes (HbA1c >9.0 or unstable) -> decline.">>))
               ELSE r
      s9(r) == IF d.insulinDependent = Str("Yes")
               THEN Docs(Note(r, Msg("insulin", <<G, "S.6.2: Insulin-dependent diabetes requires endocrinology review.">>)),
                         <<"Diabetes control records (HbA1c, glucose logs)">>)
               ELSE r
      s10(r) == IF Present(d.heartEventYears) /\ Lt(d.heartEventYears, Num(1))
                THEN Decline(r, Msg("heart", <<G, "S.6.3: MI/stent within 12 months -> decline.">>))
                ELSE r
      s11(r) == IF d.copd = Str("Yes")
                THEN Docs(Review(r, Msg("copd", <<G, "S.6.5: COPD requires PFT and severity grading.">>)),
                          <<"Pulmonary function test results">>)
                ELSE r
  IN  s11(s10(s9(s8(s7(s6(s5(s4(s3(s2(s1(r0)))))))))))

evaluateAmeritas(d) ==
  LET G == "Ameritas UW Guide "
      r0 == NewResult(<<"Photo ID", "Income documentation", "Beneficiary information">>)
      s1(r) == IF Gt(d.age, Num(80))
               THEN Decline(r, Msg("age", <<G, "S.2.1: Maximum issue age ", "80", ". Applicant age ",
                                             ToString(d.age), ".">>))
               ELSE r
      s2(r) == IF ~includes(<<"Term", "IUL">>, d.productType)
               THEN Decline(r, Msg("product", <<"Ameritas Product Matrix: ", ToString(d.productType),
                                                 " not offered. Ameritas offers Term and IUL only.">>))
               ELSE r
      s3(r) == IF Lt(d.coverage, Num(100000))
               THEN Decline(r, Msg("min_coverage", <<G, "S.4.1: Minimum face amount ", "$100,000", ". Requested ",
                                                      fmtUSD(d.coverage), ".">>))
               ELSE r
      maxCoverage == Mul(d.annualIncome, 30)
      s4(r) == IF Gt(d.coverage, maxCoverage)
               THEN Docs(Review(r, Msg("income_cap",
                           <<G, "S.4.2: Coverage exceeds ", "30", "x income. Financial justification required.">>)),
                         <<"Financial statement and needs analysis">>)
               ELSE r
      s5(r) == IF d.hazardousOccupation = Str("Yes")
               THEN Docs(Review(r, Msg("occupation",
                           <<G, "S.9.1: Hazardous occupation requires occupational underwriting and potential rating.">>)),
                         <<"Detailed occupational questionnaire">>)
               ELSE r
      s6(r) == IF d.avocationRisk = Str("Yes")
               THEN Docs(Review(r, Msg("avocation",
                           <<G, "S.9.2: High-risk avocation (pilot, scuba, mountaineering) requires avocation questionnaire and exclusion/rating consideration.">>)),
                         <<"Avocation details (frequency, training, equipment)">>)
               ELSE r
      s7(r) == IF d.tobaccoUse = Str("Yes") /\ (d.tobaccoYears = Undefined \/ Lt(d.tobaccoYears, Num(2)))
               THEN Note(r, Msg("tobacco_class", <<G, "S.5.1: Tobacco use within 24 months -> Tobacco rates.">>))
               ELSE r
  IN  s7(s6(s5(s4(s3(s2(s1(r0)))))))

evaluateLafayetteLife(d) ==
  LET G == "Lafayette UW Manual "
      r0 == NewResult(<<"Government ID", "Proof of income", "Beneficiary designation form">>)
      s1(r) == IF Gt(d.age, Num(85))
               THEN Decline(r, Msg("age", <<G, "S.1.3: Maximum issue age ", "85", ". Applicant age ",
                                             ToString(d.age), ".">>))
               ELSE r
      s2(r) == IF ~includes(<<"Whole Life", "IUL">>, d.productType)
               THEN Decline(r, Msg("product", <<"Lafayette Product Guide: ", ToString(d.productType),
                                                 " not available. Lafayette Life offers Whole Life and IUL only.">>))
               ELSE r
      s3(r) == IF Lt(d.coverage, Num(25000))
               THEN Decline(r, Msg("min_coverage", <<G, "S.3.1: Minimum coverage ", "$25,000", ".">>))
               ELSE r
      maxCoverage == Mul(d.annualIncome, 35)
      s4(r) == IF Gt(d.coverage, maxCoverage)
               THEN Docs(Flag(r, Msg("income_cap",
                           <<G, "S.3.2: Coverage exceeds ", "35", "x income cap. Enhanced financial underwriting required.">>)),
                         <<"Net worth statement">>)
               ELSE r
      s5(r) == IF d.uncontrolledHypertension = Str("Yes")
               THEN Docs(Review(r, Msg("hypertension",
                           <<G, "S.7.2: Uncontrolled hypertension requires BP readings and medication compliance verification.">>)),
                         <<"Blood pressure log (last 3 readings)">>)
               ELSE r
      s6(r) == IF d.insulinDependent = Str("Yes")
               THEN Docs(Review(r, Msg("insulin",
                           <<G, "S.7.3: Insulin-dependent diabetes subject to program-specific restrictions. Requires endocrinology review.">>)),
                         <<"Diabetes management records">>)
               ELSE r
      s7(r) == IF d.tobaccoUse = Str("Yes") /\ (d.tobaccoYears = Undefined \/ Lt(d.tobaccoYears, Num(2)))
               THEN Note(r, Msg("tobacco_class", <<G, "S.6.1: Tobacco use within 24 months -> Tobacco classification.">>))
               ELSE r
  IN  s7(s6(s5(s4(s3(s2(s1(r0)))))))

evaluateTransamerica(d) ==
  LET G == "Transamerica UW Guide "
      r0 == NewResult(<<"Photo identification", "Income verification", "Beneficiary information">>)
      s1(r) == IF Gt(d.age, Num(79))
               THEN Decline(r, Msg("age", <<G, "S.1.1: Maximum issue age ", "79", ". Applicant age ",
                                             ToString(d.age), ".">>))
               ELSE r
      s2(r) == IF d.productType # Str("Term")
               THEN Decline(r, Msg("product", <<"Transamerica Product Portfolio: Only Term products evaluated. ",
                                                 ToString(d.productType), " not applicable.">>))
               ELSE r
      s3(r) == IF Lt(d.coverage, Num(25000))
               THEN Decline(r, Msg("min_coverage", <<G, "S.4.1: Minimum face amount ", "$25,000", ".">>))
               ELSE r
      maxCoverage == Mul(d.annualIncome, 25)
      s4(r) == IF Gt(d.coverage, maxCoverage)
               THEN Docs(Flag(r, Msg("income_cap",
                           <<G, "S.4.2: Coverage exceeds ", "25", "x income. Financial justification required.">>)),
                         <<"Financial needs analysis">>)
               ELSE r
      s5(r) == IF Present(d.felonyYears) /\ Lt(d.felonyYears, Num(2))
               THEN Decline(r, Msg("felony", <<G, "S.10.1: Felony conviction within 24 months -> decline.">>))
               ELSE r
      s6(r) == IF d.tobaccoUse = Str("Yes")
               THEN IF d.tobaccoYears = Undefined \/ Lt(d.tobaccoYears, Num(1))
                    THEN Note(r, Msg("tobacco_class",
                           <<G, "S.5.1: Tobacco use within 12 months -> Tobacco rates (note: 12-month lookback, not 24).">>))
                    ELSE Note(r, Msg("non_tobacco",
                           <<G, "S.5.1: Tobacco-free >12 months -> Non-Tobacco rates eligible.">>))
               ELSE r
  IN  s6(s5(s4(s3(s2(s1(r0))))))

evaluateAmericanAmicable(d) ==
  LET G == "AA UW Manual "
      r0 == NewResult(<<"Government-issued ID", "Income documentation", "Beneficiary form">>)
      s1(r) == IF Gt(d.age, Num(85))
               THEN Decline(r, Msg("age", <<G, "S.2.1: Maximum issue age ", "85", ". Applicant age ",
                                             ToString(d.age), ".">>))
               ELSE r
      s2(r) == IF ~includes(<<"Term", "Whole Life">>, d.productType)
               THEN Decline(r, Msg("product", <<"AA Product Guide: ", ToString(d.productType),
                                                 " not offered. American Amicable offers Term and Whole Life only.">>))
               ELSE r
      s3(r) == IF Lt(d.coverage, Num(25000))
               THEN Decline(r, Msg("min_coverage", <<G, "S.3.1: Minimum face amount ", "$25,000", ".">>))
               ELSE r
      maxCoverage == Mul(d.annualIncome, 20)
      s4(r) == IF Gt(d.coverage, maxCoverage)
               THEN Docs(Flag(r, Msg("income_cap",
                           <<G, "S.3.2: Coverage exceeds ", "20", "x income. Financial underwriting required.">>)),
                         <<"Financial justification statement">>)
               ELSE r
      s5(r) == IF d.copd = Str("Yes")
               THEN Decline(r, Msg("copd", <<G, "S.8.3: COPD diagnosis -> decline per simplified issue guidelines.">>))
               ELSE r
      s6(r) == IF Present(d.heartEventYears) /\ Lt(d.heartEventYears, Num(1))
               THEN Decline(r, Msg("heart", <<G, "S.8.1: Heart attack/stent within 12 months -> decline.">>))
               ELSE IF Present(d.heartEventYears) /\ Lt(d.heartEventYears, Num(2))
               THEN Docs(Review(r, Msg("heart",
                           <<G, "S.8.1: Cardiovascular event within 24 months requires cardiology review.">>)),
                         <<"Cardiology APS and recent test results">>)
               ELSE r
      s7(r) == IF d.tobaccoUse = Str("Yes") /\ (d.tobaccoYears = Undefined \/ Lt(d.tobaccoYears, Num(2)))
               THEN Note(r, Msg("tobacco_class", <<G, "S.5.1: Tobacco use within 24 months -> Tobacco rates.">>))
               ELSE r
  IN  s7(s6(s5(s4(s3(s2(s1(r0)))))))

\* the carriers list of generateCarrierAnalysisText, in its order; the
\* evaluator of the i-th carrier
GuidelineCarriers == <<"National Life Group", "Mutual of Omaha", "Ameritas",
                       "Lafayette Life", "Transamerica", "American Amicable">>

evaluate(i, d) ==
  CASE i = 1 -> evaluateNationalLifeGroup(d)
    [] i = 2 -> evaluateMutualOfOmaha(d)
    [] i = 3 -> evaluateAmeritas(d)
    [] i = 4 -> evaluateLafayetteLife(d)
    [] i = 5 -> evaluateTransamerica(d)
    [] i = 6 -> evaluateAmericanAmicable(d)

\* the years-since-event fields and the Yes / No risk fields of the record
YearFields == {"cancerHistoryYears", "heartEventYears", "duiYears", "felonyYears", "bankruptcyYears"}
RiskFields == {"hazardousOccupation", "avocationRisk", "travelHighRisk", "uncontrolledDiabetes",
               "uncontrolledHypertension", "insulinDependent", "copd"}

(***************************************************************************)
(* server/carrierAnalysis.ts: the report of the boolean evaluator.  A text *)
(* is the sequence of its lines, each ended by a newline in the source;    *)
(* the bullet sign is written "*".                                         *)
(***************************************************************************)
\* list.forEach(r => analysis += `  * ${r}\n`), for messages and for
\* checklist items
MsgBullets(list) == [k \in 1..Len(list) |-> "  * " \o Concat(list[k].text)]
Bullets(list) == [k \in 1..Len(list) |-> "  * " \o list[k]]

\* a titled block that writes its title for an empty list too
Block_AlwaysTitled(title, lines) == <<title>> \o lines \o <<"">>

\* a titled block, written only for a non-empty list, closed by an empty
\* line
Block(title, lines) == IF lines = <<>> THEN <<>> ELSE <<title>> \o lines \o <<"">>

\* the section of one carrier
RenderCarrier(carrier, r) ==
  <<"", "**" \o carrier.name \o "**",
    "Status: " \o (IF r.eligible THEN "Potentially Eligible" ELSE "Needs Review"), "">>
  \o Block("Potential Decline Triggers:", MsgBullets(r.decline))
  \o Block("Program Flags:", MsgBullets(r.flags))
  \o Block("Underwriting Notes:", MsgBullets(r.notes))
  \o <<"Document Checklist:">> \o Bullets(r.checklist) \o <<"">>

RECURSIVE RenderFrom(_, _)
\* the sections of the carriers i, i + 1, ... in the table's order
RenderFrom(i, d) ==
  IF i > Len(CARRIER_RULES) THEN <<>>
  ELSE RenderCarrier(CARRIER_RULES[i], evaluateCarrier(CARRIER_RULES[i], d)) \o RenderFrom(i + 1, d)

generateCarrierAnalysisText(d) == RenderFrom(1, d)

(***************************************************************************)
(* unnamed/part_001: the report of the guideline evaluators.  The heavy    *)
(* rules of the source are written with "=" and "-", the marks of the      *)
(* lists "*", "!", "->" and "[ ]".                                         *)
(***************************************************************************)
LowerCase == <<"a", "b", "c", "d", "e", "f", "g", "h", "i", "j", "k", "l", "m", "n", "o", "p", "q", "r", "s", "t", "u", "v", "w", "x", "y", "z">>
UpperCase == <<"A", "B", "C", "D", "E", "F", "G", "H", "I", "J", "K", "L", "M", "N", "O", "P", "Q", "R", "S", "T", "U", "V", "W", "X", "Y", "Z">>

\* String.prototype.toUpperCase, on the characters of a carrier name
toUpperCase(cs) ==
  Concat([k \in 1..Len(cs) |->
            IF \E j \in 1..Len(LowerCase) : LowerCase[j] = cs[k]
            THEN UpperCase[CHOOSE j \in 1..Len(LowerCase) : LowerCase[j] = cs[k]]
            ELSE cs[k]])

\* the names of the carriers list, character by character
GuidelineCarrierChars ==
  <<<<"N", "a", "t", "i", "o", "n", "a", "l", " ", "L", "i", "f", "e", " ", "G", "r", "o", "u", "p">>,
    <<"M", "u", "t", "u", "a", "l", " ", "o", "f", " ", "O", "m", "a", "h", "a">>,
    <<"A", "m", "e", "r", "i", "t", "a", "s">>,
    <<"L", "a", "f", "a", "y", "e", "t", "t", "e", " ", "L", "i", "f", "e">>,
    <<"T", "r", "a", "n", "s", "a", "m", "e", "r", "i", "c", "a">>,
    <<"A", "m", "e", "r", "i", "c", "a", "n", " ", "A", "m", "i", "c", "a", "b", "l", "e">>>>

HeavyRule == "==============================================================="
LightRule == "-----------------------------------------------------------"

\* list.forEach(x => output += `  ${mark} ${x}\n`), for messages and for
\* documents
MsgLines(mark, list) == [k \in 1..Len(list) |-> "  " \o mark \o " " \o Concat(list[k].text)]
DocLines(mark, list) == [k \in 1..Len(list) |-> "  " \o mark \o " " \o list[k]]

\* the section of the i-th carrier of the list
RenderGuidelineCarrier(i, r) ==
  <<LightRule, "  " \o toUpperCase(GuidelineCarrierChars[i]), LightRule, "",
    "STATUS: " \o r.status, "">>
  \o Block("GUIDELINE CITATIONS:", MsgLines("*", r.citations))
  \o Block("FLAGS / REVIEW REQUIRED:", MsgLines("!", r.flags))
  \o Block("UNDERWRITING NOTES:", MsgLines("->", r.underwritingNotes))
  \o <<"REQUIRED DOCUMENTATION:">> \o DocLines("[ ]", r.documentChecklist) \o <<"">>

RECURSIVE RenderGuidelineFrom(_, _)
\* the sections of the carriers i, i + 1, ... in the list's order
RenderGuidelineFrom(i, d) ==
  IF i > Len(GuidelineCarriers) THEN <<>>
  ELSE RenderGuidelineCarrier(i, evaluate(i, d)) \o RenderGuidelineFrom(i + 1, d)

\* generateCarrierAnalysisText of the guideline analyzer
generateGuidelineAnalysisText(d) ==
  <<HeavyRule, "  CARRIER ELIGIBILITY ANALYSIS - LICENSED AGENT REVIEW", HeavyRule, "">>
  \o RenderGuidelineFrom(1, d)
  \o <<HeavyRule, "  END OF ANALYSIS", HeavyRule>>

(***************************************************************************)
(* unnamed/part_000 (server/routers.ts) and server/emailNotification.ts:   *)
(* the intake.submit procedure.  Of the input, the fields of the applicant *)
(* record are modelled; the identity, contact and height / weight fields   *)
(* are copied through unchanged by the code and are left out.              *)
(***************************************************************************)
\* the ids `intake_${Date.now()}_${random}` can take
Ids == {"intake_1_a", "intake_2_b"}

\* the input schema: z.number() (NaN is rejected), z.string(), and their
\* .optional() forms
ZodValid(d) ==
  /\ \A f \in {"age", "annualIncome", "coverage"} : IsNum(d[f])
  /\ \A f \in {"bmi", "productType", "tobaccoUse"} \cup RiskFields : d[f].t = "string"
  /\ \A f \in {"tobaccoYears"} \cup YearFields : IsNum(d[f]) \/ d[f] = Undefined
  /\ \A f \in {"medications", "doctorNames"} : d[f].t = "string" \/ d[f] = Undefined

\* the row passed to db.insert(intakeSubmissions).values(...)
InsertValues(id, input, carrierAnalysis) ==
  [id |-> id, age |-> input.age, bmi |-> input.bmi,
   annualIncome |-> input.annualIncome, coverage |-> input.coverage,
   productType |-> input.productType, tobaccoUse |-> input.tobaccoUse,
   tobaccoYears |-> Or(input.tobaccoYears, Null),
   medications |-> Or(input.medications, Null),
   doctorNames |-> Or(input.doctorNames, Null),
   cancerHistoryYears |-> Or(input.cancerHistoryYears, Null),
   heartEventYears |-> Or(input.heartEventYears, Null),
   duiYears |-> Or(input.duiYears, Null),
   felonyYears |-> Or(input.felonyYears, Null),
   bankruptcyYears |-> Or(input.bankruptcyYears, Null),
   hazardousOccupation |-> input.hazardousOccupation,
   avocationRisk |-> input.avocationRisk,
   travelHighRisk |-> input.travelHighRisk,
   uncontrolledDiabetes |-> input.uncontrolledDiabetes,
   uncontrolledHypertension |-> input.uncontrolledHypertension,
   insulinDependent |-> input.insulinDependent,
   copd |-> input.copd,
   carrierAnalysis |-> carrierAnalysis]

\* one line of the MEDICAL & LEGAL HISTORY section, for a present value
HistoryLine(label, v) ==
  IF v # Undefined /\ v # Null THEN <<label \o ToString(v) \o " years ago">> ELSE <<>>

\* what sendIntakeNotification hands to notifyOwner.  Of the content: the
\* history section, the medications and physicians sections, the carrier
\* analysis and the closing line; the sections that restate one input
\* field per line are left out.
Notification(d, carrierAnalysis) ==
  [history |->
     HistoryLine("Cancer Treatment:     ", d.cancerHistoryYears)
     \o HistoryLine("Cardiovascular Event: ", d.heartEventYears)
     \o HistoryLine("DUI Conviction:       ", d.duiYears)
     \o HistoryLine("Felony Conviction:    ", d.felonyYears)
     \o HistoryLine("Bankruptcy:           ", d.bankruptcyYears)
     \o (IF \A f \in YearFields : ~Truthy(d[f])
         THEN <<"No significant medical or legal history disclosed.">> ELSE <<>>),
   medications |-> IF Truthy(d.medications) /\ TrimTruthy(d.medications)
                   THEN ToString(d.medications) ELSE "None disclosed",
   physicians |-> IF Truthy(d.doctorNames) /\ TrimTruthy(d.doctorNames)
                  THEN ToString(d.doctorNames) ELSE "None disclosed",
   carrierAnalysis |-> carrierAnalysis,
   closing |-> "This submission has been saved to the database for record-keeping."]

\* an insert whose exception leaves the handler
InsertOutcome_Uncaught(ok) == IF ok THEN "stored" ELSE "uncaught"

\* try { await db.insert(...).values(...) } catch { console.error(...) }:
\* what becomes of the insert when it resolves (ok) or throws
InsertOutcome(ok) == IF ok THEN "stored" ELSE "threw"

\* a sendIntakeNotification that lets notifyOwner's exception through
sendIntakeNotification_Uncaught(outcome) ==
  CASE outcome = "true" -> [threw |-> FALSE, value |-> TRUE]
    [] outcome = "false" -> [threw |-> FALSE, value |-> FALSE]
    [] outcome = "throws" -> [threw |-> TRUE, value |-> FALSE]

\* try { return await notifyOwner(...) } catch { return false }: how
\* sendIntakeNotification ends - it returns value, or throws - when
\* notifyOwner resolves to true or to false, or throws or rejects
sendIntakeNotification(outcome) ==
  CASE outcome = "true" -> [threw |-> FALSE, value |-> TRUE]
    [] outcome = "false" -> [threw |-> FALSE, value |-> FALSE]
    [] outcome = "throws" -> [threw |-> FALSE, value |-> FALSE]

\* what the caller of the mutation gets when the handler throws
Thrown == [success |-> FALSE]

\* the mutation's return value with the analysis added to it
SubmitResponse_WithAnalysis(id, carrierAnalysis, emailSent) ==
  [success |-> TRUE, id |-> id, emailSent |-> emailSent, carrierAnalysis |-> carrierAnalysis]

\* the mutation's return value
SubmitResponse(id, carrierAnalysis, emailSent) ==
  [success |-> TRUE, id |-> id, emailSent |-> emailSent]

(***************************************************************************)
(* client/src/pages/Home.tsx: the BMI the form shows and submits.  The     *)
(* quotient and the product are IEEE 754 doubles, each operation rounding  *)
(* to nearest, ties to even.  A positive double is [m |-> significand,     *)
(* e |-> exponent], of value m * 2^e, with m an integer of 53 bits (or     *)
(* 2^53 after a carry); an integer of that size is the sequence of its     *)
(* digits in base Base, most significant first.                            *)
(***************************************************************************)
SignificandBits == 53
LimbBits == 13
Base == 2^LimbBits

RECURSIVE Limbs(_)
\* the digits of a natural number, none for 0
Limbs(n) == IF n = 0 THEN <<>> ELSE Append(Limbs(n \div Base), n % Base)

RECURSIVE LimbsVal(_)
\* the number of a digit sequence
LimbsVal(a) ==
  IF a = <<>> THEN 0 ELSE Base * LimbsVal(SubSeq(a, 1, Len(a) - 1)) + a[Len(a)]

RECURSIVE Strip(_)
\* without leading zeros
Strip(a) == IF a # <<>> /\ a[1] = 0 THEN Strip(Tail(a)) ELSE a

RECURSIVE MulSmall(_, _, _)
\* a * k + carry, for a small natural k
MulSmall(a, k, carry) ==
  IF a = <<>> THEN Limbs(carry)
  ELSE LET t == a[Len(a)] * k + carry
       IN  Append(MulSmall(SubSeq(a, 1, Len(a) - 1), k, t \div Base), t % Base)

RECURSIVE DivSmall(_, _, _)
\* quotient and remainder of (r * Base^Len(a) + a) by a small natural d
DivSmall(a, d, r) ==
  IF a = <<>> THEN [q |-> <<>>, r |-> r]
  ELSE LET t == r * Base + a[1]
           rest == DivSmall(Tail(a), d, t % d)
       IN  [q |-> <<t \div d>> \o rest.q, r |-> rest.r]

RECURSIVE Succ(_)
\* a + 1
Succ(a) ==
  IF a = <<>> THEN <<1>>
  ELSE IF a[Len(a)] < Base - 1 THEN [a EXCEPT ![Len(a)] = @ + 1]
  ELSE Append(Succ(SubSeq(a, 1, Len(a) - 1)), 0)

RECURSIVE BitLen(_)
\* the number of bits of a natural number
BitLen(n) == IF n = 0 THEN 0 ELSE 1 + BitLen(n \div 2)

BitLength(a) == IF a = <<>> THEN 0 ELSE (Len(a) - 1) * LimbBits + BitLen(a[1])

\* a * 2^k
ShiftLeft(a, k) == MulSmall(a, 2^(k % LimbBits), 0) \o [i \in 1..(k \div LimbBits) |-> 0]

\* quotient and remainder of a by 2^k, for k <= LimbBits
ShiftRightSmall(a, k) == LET x == DivSmall(a, 2^k, 0) IN [q |-> Strip(x.q), r |-> x.r]

\* floor(a / 2^k)
ShiftRight(a, k) ==
  LET keep == Len(a) - (k \div LimbBits)
  IN  IF keep <= 0 THEN <<>> ELSE ShiftRightSmall(SubSeq(a, 1, keep), k % LimbBits).q

\* q + r / d rounded to an integer: to nearest, ties to even
RoundHalfEven(q, r, d) ==
  IF 2 * r > d \/ (2 * r = d /\ q # <<>> /\ q[Len(q)] % 2 = 1) THEN Succ(q) ELSE q

RECURSIVE LeadShift(_, _)
\* the least j with w * 2^j >= d
LeadShift(w, d) == IF w >= d THEN 0 ELSE 1 + LeadShift(2 * w, d)

\* w / d for positive integers w < 2^18 and d < 2^18 (each exactly a double)
Div(w, d) ==
  LET e0 == IF w >= d THEN BitLen(w \div d) - 1 ELSE -LeadShift(w, d)
      k == (SignificandBits - 1) - e0
      x == DivSmall(ShiftLeft(Limbs(w), k), d, 0)
  IN  [m |-> RoundHalfEven(Strip(x.q), x.r, d), e |-> -k]

\* x * k for a double x and an integer 2 <= k < 2^LimbBits
Times(x, k) ==
  LET p == MulSmall(x.m, k, 0)
      s == BitLength(p) - SignificandBits
      y == ShiftRightSmall(p, s)
  IN  [m |-> RoundHalfEven(y.q, y.r, 2^s), e |-> x.e + s]

\* the n of x.toFixed(1): the integer nearest to 10 * x, the larger of two
\* equally near; for 1/2 <= x and 20 * x < 2^31
Tenths(x) == (LimbsVal(ShiftRight(MulSmall(x.m, 10, 0), -x.e - 1)) + 1) \div 2

RECURSIVE NatChars(_)
\* the digit characters of a natural number
NatChars(n) == IF n < 10 THEN <<Digit(n)>> ELSE Append(NatChars(n \div 10), Digit(n % 10))

\* the string of n tenths, with one fraction digit
OneDecimal(n) == Chars(NatChars(n \div 10) \o <<".", Digit(n % 10)>>)

\* x.toFixed(1) with the further digits cut off instead of rounded
toFixed1_Truncating(x) ==
  OneDecimal(LimbsVal(ShiftRight(MulSmall(x.m, 10, 0), -x.e - 1)) \div 2)

\* x.toFixed(1)
toFixed1(x) == OneDecimal(Tenths(x))

\* the bmi memo of Home, for form fields heightIn and weightLb that hold
\* the digits of a natural number, or nothing
bmi(form) ==
  LET h == Number(Or(form.heightIn, Num(0)))
      w == Number(Or(form.weightLb, Num(0)))
  IN  IF ~Truthy(h) \/ ~Truthy(w) THEN Chars(<<>>)
      ELSE toFixed1(Times(Div(w.x10 \div 10, (h.x10 \div 10) * (h.x10 \div 10)), 703))

(***************************************************************************)
(* The state machine: a caller prepares one applicant record, starting     *)
(* from the intake form's defaults (client/src/pages/Home.tsx), then calls *)
(* one evaluator on it; ret holds what the call returned.                  *)
(***************************************************************************)
NoCall == [fn |-> "none", carrier |-> 0]

\* the locals of intake.submit before a call: the id, the carrier analysis,
\* what became of the insert, how notifyOwner settled and what
\* sendIntakeNotification returned
NoLocals == [id |-> "", carrierAnalysis |-> <<>>, insert |-> "none", notifyOwner |-> "none",
             emailSent |-> [threw |-> FALSE, value |-> FALSE]]

\* the options of the form's Product Type select, the first being the
\* form's initial value
ProductTypeOptions ==
  <<"Term", "Whole Life", "Universal Life", "Indexed Universal Life (IUL)",
    "Variable Universal Life">>

\* the form's initial values as handleSubmit sends them, for an applicant
\* of age 40 (height 70, weight 190 give the BMI string "27.3")
DefaultRecord ==
  [age |-> Num(40), annualIncome |-> Num(80000), coverage |-> Num(500000),
   productType |-> Str("Term"), bmi |-> Chars(<<"2", "7", ".", "3">>),
   tobaccoUse |-> Str("No"), tobaccoYears |-> Undefined,
   medications |-> Chars(<<>>), doctorNames |-> Chars(<<>>),
   cancerHistoryYears |-> Undefined, heartEventYears |-> Undefined,
   duiYears |-> Undefined, felonyYears |-> Undefined, bankruptcyYears |-> Undefined,
   hazardousOccupation |-> Str("No"), avocationRisk |-> Str("No"),
   travelHighRisk |-> Str("No"), uncontrolledDiabetes |-> Str("No"),
   uncontrolledHypertension |-> Str("No"), insulinDependent |-> Str("No"),
   copd |-> Str("No")]

Fields == DOMAIN DefaultRecord

\* the values a caller may give a field: the boundaries of every threshold
\* the evaluators compare it with, the options of the form's Product Type
\* select, the absent values (undefined, null, the empty string), the
\* string "0" and not-a-number
FieldValues(f) ==
  CASE f = "age" -> {Num(75), Num(76), Num(79), Num(80), Num(81), Num(85), Num(86), NaN}
    [] f = "annualIncome" -> {Num(0), Num(40000), NaN}
    [] f = "coverage" -> {Num(0), Num(24999), Num(25000), Num(49999), Num(50000), Num(99999),
                          Num(100000), Num(999999), Num(1000000), Num(2000000), Num(3000000), NaN}
    [] f = "productType" -> {Str(ProductTypeOptions[k]) : k \in 2..Len(ProductTypeOptions)}
                            \cup {Str("IUL"), Undefined}
    [] f = "bmi" -> {Chars(<<>>), Chars(<<"4", "0", ".", "1">>), Chars(<<"5", "0", ".", "0">>),
                     Chars(<<"5", "0", ".", "1">>), Chars(<<"N", "a", "N">>)}
    [] f = "tobaccoUse" -> {Str("Yes")}
    [] f = "tobaccoYears" -> {Null, Num(0), Num(1), Num(2), Num(3), NaN}
    [] f \in {"medications", "doctorNames"} -> {Undefined, Chars(<<" ", " ">>), Chars(<<" ", "x", " ">>)}
    [] f \in YearFields -> {Null, Num(0), Num(1), Num(2), Num(3), Num(5),
                            Chars(<<>>), Chars(<<"0">>), NaN}
    [] f \in RiskFields -> {Str("Yes")}

Edited(d) == {f \in Fields : d[f] # DefaultRecord[f]}

Init ==
  /\ data = DefaultRecord
  /\ called = NoCall
  /\ ret = <<>>
  /\ pc = "idle"
  /\ local = NoLocals
  /\ db = <<>>
  /\ notifications = <<>>
  /\ rules = CARRIER_RULES
  /\ allocated = Len(CARRIER_RULES)
  /\ results = <<>>
  /\ submitted = FALSE
  /\ mutations = <<>>
  /\ toast = ""

\* the caller sets one field of the record it prepares
SetField(f, v) ==
  /\ called = NoCall
  /\ Cardinality(Edited([data EXCEPT ![f] = v])) <= MaxEdits
  /\ data' = [data EXCEPT ![f] = v]
  /\ UNCHANGED <<called, ret, server, engine, client>>

\* evaluateCarrier(CARRIER_RULES[i], data)
EvaluateCarrier(i) ==
  /\ called = NoCall
  /\ called' = [fn |-> "evaluateCarrier", carrier |-> i]
  /\ ret' = evaluateCarrier(CARRIER_RULES[i], data)
  /\ UNCHANGED <<data, server, engine, client>>

\* carriers[i].evaluate(data) of the guideline analyzer
EvaluateGuideline(i) ==
  /\ called = NoCall
  /\ called' = [fn |-> "guideline", carrier |-> i]
  /\ ret' = evaluate(i, data)
  /\ UNCHANGED <<data, server, engine, client>>

\* generateCarrierAnalysisText(data) of server/carrierAnalysis.ts
RenderAnalysis ==
  /\ called = NoCall
  /\ called' = [fn |-> "generateCarrierAnalysisText", carrier |-> 0]
  /\ ret' = generateCarrierAnalysisText(data)
  /\ UNCHANGED <<data, server, engine, client>>

\* generateCarrierAnalysisText(data) of the guideline analyzer
RenderGuidelineAnalysis ==
  /\ called = NoCall
  /\ called' = [fn |-> "guideline.generateCarrierAnalysisText", carrier |-> 0]
  /\ ret' = generateGuidelineAnalysisText(data)
  /\ UNCHANGED <<data, server, engine, client>>

\* intake.submit, up to its first await: the input has passed the schema;
\* the id and the carrier analysis are computed, getDb() is called
SubmitBegin(id) ==
  /\ called = NoCall
  /\ ZodValid(data)
  /\ called' = [fn |-> "intake.submit", carrier |-> 0]
  /\ local' = [NoLocals EXCEPT !.id = id, !.carrierAnalysis = generateCarrierAnalysisText(data)]
  /\ pc' = "getDb"
  /\ UNCHANGED <<data, ret, db, notifications, engine, client>>

\* getDb() resolves, with a database or with null; without one the insert
\* is skipped
GetDb(available) ==
  /\ pc = "getDb"
  /\ pc' = IF available THEN "insert" ELSE "notify"
  /\ local' = [local EXCEPT !.insert = IF available THEN @ ELSE "skipped"]
  /\ UNCHANGED <<data, called, ret, db, notifications, engine, client>>

\* db.insert(intakeSubmissions).values(...) settles: the row is stored, or
\* the insert throws and the handler logs the error and goes on
Insert(ok) ==
  /\ pc = "insert"
  /\ db' = IF ok THEN Append(db, InsertValues(local.id, data, local.carrierAnalysis)) ELSE db
  /\ local' = [local EXCEPT !.insert = InsertOutcome(ok)]
  /\ IF InsertOutcome(ok) = "uncaught"
     THEN pc' = "done" /\ ret' = Thrown
     ELSE pc' = "notify" /\ ret' = ret
  /\ UNCHANGED <<data, called, notifications, engine, client>>

\* sendIntakeNotification builds the title and the content and hands them
\* to notifyOwner
SendIntakeNotification ==
  /\ pc = "notify"
  /\ notifications' = Append(notifications, Notification(data, local.carrierAnalysis))
  /\ pc' = "notifyOwner"
  /\ UNCHANGED <<data, called, ret, local, db, engine, client>>

\* notifyOwner settles (true, false, or it throws), sendIntakeNotification
\* returns and the handler returns its response
SubmitReturn(outcome) ==
  /\ pc = "notifyOwner"
  /\ local' = [local EXCEPT !.notifyOwner = outcome, !.emailSent = sendIntakeNotification(outcome)]
  /\ ret' = IF sendIntakeNotification(outcome).threw THEN Thrown
            ELSE SubmitResponse(local.id, local.carrierAnalysis,
                                sendIntakeNotification(outcome).value)
  /\ pc' = "done"
  /\ UNCHANGED <<data, called, db, notifications, engine, client>>

Next ==
  \/ \E f \in Fields : \E v \in FieldValues(f) : SetField(f, v)
  \/ \E i \in Carriers : EvaluateCarrier(i)
  \/ \E i \in 1..Len(GuidelineCarriers) : EvaluateGuideline(i)
  \/ RenderAnalysis
  \/ RenderGuidelineAnalysis
  \/ \E id \in Ids : SubmitBegin(id)
  \/ \E available \in BOOLEAN : GetDb(available)
  \/ \E ok \in BOOLEAN : Insert(ok)
  \/ SendIntakeNotification
  \/ \E outcome \in {"true", "false", "throws"} : SubmitReturn(outcome)

Spec == Init /\ [][Next]_vars

(***************************************************************************)
(* The form (client/src/pages/Home.tsx): the height and weight fields and  *)
(* the BMI shown from them; data is the two fields, ret the bmi memo of    *)
(* the last render.                                                        *)
(***************************************************************************)
HeightInputs ==
  {Chars(<<>>), Chars(<<"0">>)} \cup {Chars(NatChars(h)) : h \in (1..MaxHeightIn) \cup {60, 70}}
WeightInputs ==
  {Chars(<<>>), Chars(<<"0">>)}
  \cup {Chars(NatChars(w)) : w \in (1..MaxWeightLb) \cup {180, 190, 245}}

InitHome ==
  /\ data = [heightIn |-> Chars(<<"7", "0">>), weightLb |-> Chars(<<"1", "9", "0">>)]
  /\ called = [fn |-> "Home", carrier |-> 0]
  /\ ret = bmi(data)
  /\ pc = "idle"
  /\ local = NoLocals
  /\ db = <<>>
  /\ notifications = <<>>
  /\ rules = CARRIER_RULES
  /\ allocated = Len(CARRIER_RULES)
  /\ results = <<>>
  /\ submitted = FALSE
  /\ mutations = <<>>
  /\ toast = ""

\* onChange of the Height field: setData, and the render recomputes bmi
ChangeHeightIn(v) ==
  /\ called.fn = "Home"
  /\ data' = [data EXCEPT !.heightIn = v]
  /\ ret' = bmi(data')
  /\ UNCHANGED <<called, server, engine, client>>

\* onChange of the Weight field: setData, and the render recomputes bmi
ChangeWeightLb(v) ==
  /\ called.fn = "Home"
  /\ data' = [data EXCEPT !.weightLb = v]
  /\ ret' = bmi(data')
  /\ UNCHANGED <<called, server, engine, client>>

NextHome ==
  \/ \E v \in HeightInputs : ChangeHeightIn(v)
  \/ \E v \in WeightInputs : ChangeWeightLb(v)

SpecHome == InitHome /\ [][NextHome]_vars

(***************************************************************************)
(* The form's submission (client/src/pages/Home.tsx): data is the fields   *)
(* handleSubmit requires; mutations is the submit mutations issued so far, *)
(* each with the input it carries and its status.  The submit button is    *)
(* disabled while a mutation is pending, and the form is not rendered once *)
(* submitted is true.                                                      *)
(***************************************************************************)
RequiredFields == {"firstName", "lastName", "email", "dateOfBirth", "state"}

\* the initial values of these fields in useState
InitialFields ==
  [firstName |-> Chars(<<>>), lastName |-> Chars(<<>>), email |-> Chars(<<>>),
   dateOfBirth |-> Chars(<<>>), state |-> Chars(<<"O", "H">>)]

\* a validation that leaves the state of residence out
MissingRequired_StateUnchecked(d) == \E f \in RequiredFields \ {"state"} : ~Truthy(d[f])

\* !data.firstName || !data.lastName || !data.email || !data.dateOfBirth ||
\* !data.state
MissingRequired(d) == \E f \in RequiredFields : ~Truthy(d[f])

\* submitMutation.isPending
IsPending == \E k \in DOMAIN mutations : mutations[k].status = "pending"

InitForm ==
  /\ data = InitialFields
  /\ called = [fn |-> "Home", carrier |-> 0]
  /\ ret = <<>>
  /\ pc = "idle"
  /\ local = NoLocals
  /\ db = <<>>
  /\ notifications = <<>>
  /\ rules = CARRIER_RULES
  /\ allocated = Len(CARRIER_RULES)
  /\ results = <<>>
  /\ submitted = FALSE
  /\ mutations = <<>>
  /\ toast = ""

\* onChange of one of the fields, while the form is shown
ChangeField(f, v) ==
  /\ ~submitted
  /\ data' = [data EXCEPT ![f] = v]
  /\ UNCHANGED <<called, ret, server, engine, client>>

\* handleSubmit, run by the form's submit event: the required fields are
\* validated, then submitMutation.mutate(...) is called
HandleSubmit ==
  /\ ~submitted
  /\ ~IsPending
  /\ Len(mutations) < MaxMutations
  /\ IF MissingRequired(data)
     THEN /\ toast' = "Please fill in all required fields"
          /\ UNCHANGED mutations
     ELSE /\ mutations' = Append(mutations, [input |-> data, status |-> "pending"])
          /\ UNCHANGED toast
  /\ UNCHANGED <<data, called, ret, server, engine, submitted>>

\* the k-th mutation succeeds: onSuccess
MutationSucceeds(k) ==
  /\ mutations[k].status = "pending"
  /\ mutations' = [mutations EXCEPT ![k].status = "success"]
  /\ submitted' = TRUE
  /\ UNCHANGED <<data, called, ret, server, engine, toast>>

\* the k-th mutation fails: onError
MutationFails(k) ==
  /\ mutations[k].status = "pending"
  /\ mutations' = [mutations EXCEPT ![k].status = "error"]
  /\ toast' = "Failed to submit: "
  /\ UNCHANGED <<data, called, ret, server, engine, submitted>>

NextForm ==
  \/ \E f \in RequiredFields : \E v \in {Chars(<<>>), Chars(<<"x">>)} : ChangeField(f, v)
  \/ HandleSubmit
  \/ \E k \in DOMAIN mutations : MutationSucceeds(k)
  \/ \E k \in DOMAIN mutations : MutationFails(k)

SpecForm == InitForm /\ [][NextForm]_vars

(***************************************************************************)
(* A process that calls the boolean evaluator and its report several times *)
(* (server/carrierAnalysis.ts).  An array is known by the number it got    *)
(* when it was allocated: the products arrays of the table are the arrays  *)
(* 1 .. Len(CARRIER_RULES), allocated when the module is loaded; results   *)
(* holds, per call, the arrays of the value the call returned.             *)
(***************************************************************************)
\* the records the caller passes: the form's defaults and every record one
\* edit away from them
CallRecords ==
  {DefaultRecord}
  \cup UNION {{[DefaultRecord EXCEPT ![f] = v] : v \in FieldValues(f)} : f \in Fields}

\* an array allocated once and used again by every call
NewArray_Hoisted(n, k) == Len(CARRIER_RULES) + k

\* the k-th array a call allocates ([] or an array literal) when n arrays
\* exist
NewArray(n, k) == n + k

InitCalls ==
  /\ data \in CallRecords
  /\ called = NoCall
  /\ ret = <<>>
  /\ pc = "idle"
  /\ local = NoLocals
  /\ db = <<>>
  /\ notifications = <<>>
  /\ rules = CARRIER_RULES
  /\ allocated = Len(CARRIER_RULES)
  /\ results = <<>>
  /\ submitted = FALSE
  /\ mutations = <<>>
  /\ toast = ""

\* the caller takes the record of its next call
TakeRecord(d) ==
  /\ called # NoCall
  /\ Len(results) < MaxCalls
  /\ data' = d
  /\ called' = NoCall
  /\ ret' = <<>>
  /\ UNCHANGED <<server, engine, client>>

\* evaluateCarrier(CARRIER_RULES[i], data): notes, flags, the reasons of
\* declineReasons and the checklist are allocated in this order; the
\* carrier and the record are read only
CallEvaluateCarrier(i) ==
  /\ called = NoCall
  /\ called' = [fn |-> "evaluateCarrier", carrier |-> i, arg |-> data]
  /\ ret' = evaluateCarrier(rules[i], data)
  /\ results' = Append(results, [notes |-> NewArray(allocated, 1), flags |-> NewArray(allocated, 2),
                                  decline |-> NewArray(allocated, 3),
                                  checklist |-> NewArray(allocated, 4)])
  /\ allocated' = allocated + 4
  /\ UNCHANGED <<data, rules, server, client>>

\* generateCarrierAnalysisText(data): the array of CARRIER_RULES.map and
\* the four arrays of each evaluateCarrier call are allocated; the value
\* returned is a string and holds no array
CallGenerateCarrierAnalysisText ==
  /\ called = NoCall
  /\ called' = [fn |-> "generateCarrierAnalysisText", carrier |-> 0, arg |-> data]
  /\ ret' = generateCarrierAnalysisText(data)
  /\ results' = Append(results, <<>>)
  /\ allocated' = allocated + 1 + 4 * Len(rules)
  /\ UNCHANGED <<data, rules, server, client>>

NextCalls ==
  \/ \E d \in CallRecords : TakeRecord(d)
  \/ \E i \in DOMAIN rules : CallEvaluateCarrier(i)
  \/ CallGenerateCarrierAnalysisText

SpecCalls == InitCalls /\ [][NextCalls]_vars

(***************************************************************************)
(* Properties.  The thresholds below are those of the specification's      *)
(* carrier table, in the carriers' order.                                  *)
(***************************************************************************)
TableMaxAge == <<80, 75, 80, 85, 79, 85>>
TableMinCoverage == <<25000, 50000, 100000, 25000, 25000, 25000>>
TableIncomeMultiple == <<30, 25, 30, 35, 25, 20>>
TableTobaccoLookback == <<2, 2, 2, 2, 1, 2>>

RuleCall == called.fn = "evaluateCarrier"
GuideCall == called.fn = "guideline"

\* the message m has the piece p in its text
Contains(m, p) == \E k \in DOMAIN m.text : m.text[k] = p
\* some message of the list comes from the code site tagged rule
HasRule(list, rule) == \E k \in DOMAIN list : list[k].rule = rule
\* how many messages of the list come from the code site tagged rule
CountRule(list, rule) == Cardinality({k \in DOMAIN list : list[k].rule = rule})
\* some message of the list has the piece p
SomeContains(list, p) == \E k \in DOMAIN list : Contains(list[k], p)

\* v is a number and v > k, v < k, v <= k, v >= k
NumOver(v, k) == v.t = "number" /\ v.x10 > 10 * k
NumUnder(v, k) == v.t = "number" /\ v.x10 < 10 * k
NumAtMost(v, k) == v.t = "number" /\ v.x10 <= 10 * k
NumAtLeast(v, k) == v.t = "number" /\ v.x10 >= 10 * k

\* C1: for each carrier, an applicant older than the carrier's maximum issue
\* age is evaluated ineligible (status Not Eligible in the guideline
\* evaluator, eligible = false in evaluateCarrier), with a citation / decline
\* entry that contains the literal maximum age, whatever the other fields.
C1_AgeOverMaxIsIneligible ==
  /\ (GuideCall /\ NumOver(data.age, TableMaxAge[called.carrier]))
       => /\ ret.status = NotEligible
          /\ SomeContains(ret.citations, NatStr(TableMaxAge[called.carrier]))
  /\ (RuleCall /\ NumOver(data.age, TableMaxAge[called.carrier]))
       => /\ ~ret.eligible
          /\ SomeContains(ret.decline, NatStr(TableMaxAge[called.carrier]))

\* C2: for each carrier, a requested coverage below the carrier's minimum
\* (0 included) is evaluated ineligible, with a message that contains the
\* literal minimum-coverage amount, whatever the other fields.
C2_CoverageUnderMinIsIneligible ==
  /\ (GuideCall /\ NumUnder(data.coverage, TableMinCoverage[called.carrier]))
       => /\ ret.status = NotEligible
          /\ SomeContains(ret.citations, "$" \o Grouped(TableMinCoverage[called.carrier]))
  /\ (RuleCall /\ NumUnder(data.coverage, TableMinCoverage[called.carrier]))
       => /\ ~ret.eligible
          /\ SomeContains(ret.flags \o ret.decline, "$" \o Grouped(TableMinCoverage[called.carrier]))

\* C3: in every guideline evaluator, a non-empty citations list means the
\* status Not Eligible: no soft flag lowers it back to Needs Review.
C3_CitationMeansNotEligible ==
  (GuideCall /\ ret.citations # <<>>) => ret.status = NotEligible

\* C4: in every guideline evaluator, a non-empty flags list means the status
\* is Needs Review or Not Eligible, never Potentially Eligible.
C4_FlagMeansNotPotentiallyEligible ==
  (GuideCall /\ ret.flags # <<>>) => ret.status \in {NeedsReview, NotEligible}

\* the carrier-specific decline triggers of the table that the record d
\* meets for the i-th carrier, each named by the tag of its code site
TableTriggers(i, d) ==
  CASE i = 1 -> {g \in {"dui", "bankruptcy", "travel"} :
                   \/ g = "dui" /\ NumAtMost(d.duiYears, 1)
                   \/ g = "bankruptcy" /\ NumUnder(d.bankruptcyYears, 1)
                   \/ g = "travel" /\ d.travelHighRisk = Str("Yes")}
    [] i = 2 -> {g \in {"cancer", "diabetes", "bmi"} :
                   \/ g = "cancer" /\ NumUnder(d.cancerHistoryYears, 2)
                   \/ g = "diabetes" /\ d.uncontrolledDiabetes = Str("Yes")
                   \/ g = "bmi" /\ NumOver(parseFloat(d.bmi), 50)}
    [] i = 3 -> {g \in {"occupation", "avocation"} :
                   \/ g = "occupation" /\ d.hazardousOccupation = Str("Yes")
                   \/ g = "avocation" /\ d.avocationRisk = Str("Yes")}
    [] i = 4 -> {g \in {"hypertension", "insulin"} :
                   \/ g = "hypertension" /\ d.uncontrolledHypertension = Str("Yes")
                   \/ g = "insulin" /\ d.insulinDependent = Str("Yes")}
    [] i = 5 -> {g \in {"felony"} : NumUnder(d.felonyYears, 2)}
    [] i = 6 -> {g \in {"copd", "heart"} :
                   \/ g = "copd" /\ d.copd = Str("Yes")
                   \/ g = "heart" /\ NumUnder(d.heartEventYears, 1)}

\* C5: each table-listed carrier-specific decline trigger, when the
\* applicant meets it, makes that carrier's guideline evaluation return
\* Not Eligible with a citation for the trigger.
C5_TableTriggerDeclines ==
  GuideCall =>
    \A g \in TableTriggers(called.carrier, data) :
      ret.status = NotEligible /\ HasRule(ret.citations, g)

\* the conditions of the i-th rule-table entry that the normalized record
\* n triggers, with the boundaries the claim lists
RuleTriggers(i, n) ==
  (IF NumOver(n.age, TableMaxAge[i]) THEN {"age"} ELSE {})
  \cup
  (CASE i = 1 -> (IF NumAtMost(n.duiYears, 1) THEN {"dui"} ELSE {})
                 \cup (IF NumUnder(n.bankruptcyYears, 1) THEN {"bankruptcy"} ELSE {})
                 \cup (IF n.travelHighRisk THEN {"travel"} ELSE {})
     [] i = 2 -> (IF NumUnder(n.cancerHistoryYears, 2) THEN {"cancer"} ELSE {})
                 \cup (IF n.uncontrolledDiabetes THEN {"diabetes"} ELSE {})
                 \cup (IF NumOver(n.bmi, 50) THEN {"bmi"} ELSE {})
     [] i = 3 -> (IF n.hazardousOccupation THEN {"occupation"} ELSE {})
                 \cup (IF n.avocationRisk THEN {"avocation"} ELSE {})
     [] i = 4 -> (IF n.uncontrolledHypertension THEN {"hypertension"} ELSE {})
                 \cup (IF n.insulinDependent THEN {"insulin"} ELSE {})
     [] i = 5 -> (IF NumUnder(n.felonyYears, 2) THEN {"felony"} ELSE {})
     [] i = 6 -> (IF n.copd THEN {"copd"} ELSE {})
                 \cup (IF NumUnder(n.heartEventYears, 1) THEN {"heart"} ELSE {}))

\* C6: in the rule table, declineReasons returns exactly one reason for each
\* triggered condition (age over the maximum, and the carrier's own triggers
\* with their boundaries) and nothing else.
C6_DeclineReasonsExact ==
  RuleCall =>
    LET n == normalizeDataForRules(data)
        T == RuleTriggers(called.carrier, n)
    IN  /\ Len(ret.decline) = Cardinality(T)
        /\ \A g \in T : CountRule(ret.decline, g) = 1

\* C6 witness: National Life Group's rules ran on DUI 1 year (triggers) and
\* bankruptcy 1 year (does not trigger): exactly the DUI reason came back
C6_Witness ==
  /\ RuleCall /\ called.carrier = 1
  /\ data.duiYears = Num(1) /\ data.bankruptcyYears = Num(1)
  /\ Len(ret.decline) = 1 /\ ret.decline[1].rule = "dui"

\* coverage > annualIncome * the i-th carrier's income multiple
OverIncomeCap(i, d) ==
  /\ d.coverage.t = "number" /\ d.annualIncome.t = "number"
  /\ d.coverage.x10 > d.annualIncome.x10 * TableIncomeMultiple[i]

\* the computed cap, annualIncome * multiple, as currency text
CapText(i, d) ==
  LET c == (d.annualIncome.x10 * TableIncomeMultiple[i]) \div 10
  IN  "$" \o Grouped(c)

\* C7: for every carrier, coverage over annualIncome * the carrier's
\* multiple (annualIncome 0 with a positive coverage included) emits a flag
\* whose text contains the computed cap and the carrier's literal multiple,
\* in evaluateCarrier and in each guideline evaluator.
C7_IncomeCapFlagHasCapAndMultiple ==
  ((RuleCall \/ GuideCall) /\ OverIncomeCap(called.carrier, data))
    => \E k \in DOMAIN ret.flags :
         /\ Contains(ret.flags[k], CapText(called.carrier, data))
         /\ Contains(ret.flags[k], NatStr(TableIncomeMultiple[called.carrier]))

\* C8: in the guideline evaluators, coverage over the income cap with no
\* hard decline triggered returns Needs Review.
C8_IncomeCapAloneNeedsReview ==
  (GuideCall /\ OverIncomeCap(called.carrier, data) /\ ret.citations = <<>>)
    => ret.status = NeedsReview

\* the notes list of the returned result, in either evaluator's shape
RetNotes == IF RuleCall THEN ret.notes ELSE ret.underwritingNotes

\* C9: for a tobacco user, years since use present and under the carrier's
\* lookback add a tobacco-rate-class note; present and at or over the
\* lookback add a non-tobacco note; absent (undefined or null) add a
\* clarification flag and no classification note.  In evaluateCarrier and
\* in each guideline evaluator.
C9_TobaccoClassification ==
  ((RuleCall \/ GuideCall) /\ data.tobaccoUse = Str("Yes")) =>
    LET y == data.tobaccoYears
        lookback == TableTobaccoLookback[called.carrier]
    IN  /\ NumUnder(y, lookback) => HasRule(RetNotes, "tobacco_class")
        /\ NumAtLeast(y, lookback) => HasRule(RetNotes, "non_tobacco")
        /\ (y = Undefined \/ y = Null) =>
             /\ HasRule(ret.flags, "tobacco_unknown")
             /\ ~HasRule(RetNotes, "tobacco_class")
             /\ ~HasRule(RetNotes, "non_tobacco")

\* the checklist of the returned result, in either evaluator's shape
RetChecklist == IF RuleCall THEN ret.checklist ELSE ret.documentChecklist

\* every document of the source that asks for financial justification or
\* financial underwriting
FinancialDocuments ==
  {"Financial justification (income + assets)",
   "Financial justification statement (assets, liabilities, estate planning needs)",
   "Financial underwriting package (tax returns, bank statements, net worth statement)",
   "Financial needs analysis",
   "Financial statement and needs analysis",
   "Net worth statement",
   "Financial justification statement"}

\* no conditional checklist item applies to the record: nothing beyond the
\* defaults is disclosed and the coverage is under $1,000,000 and within
\* every carrier's income cap
NoConditionalTrigger(d) ==
  /\ NumUnder(d.coverage, 1000000)
  /\ \A i \in 1..6 : ~OverIncomeCap(i, d)
  /\ \A f \in Fields \ {"age", "coverage", "annualIncome"} : d[f] = DefaultRecord[f]

\* C10: with no conditional trigger the required-document checklist is
\* exactly the three baseline documents, and from coverage 1,000,000 up
\* (1,000,000 included) it also has a financial-justification or
\* financial-underwriting document.  In evaluateCarrier and in each
\* guideline evaluator.
C10_ChecklistBaselineAndFinancial ==
  (RuleCall \/ GuideCall) =>
    /\ NoConditionalTrigger(data) => Len(RetChecklist) = 3
    /\ NumAtLeast(data.coverage, 1000000)
         => \E k \in DOMAIN RetChecklist : RetChecklist[k] \in FinancialDocuments

\* the checklist items of the source, by what they ask for
MedicationItems ==
  {"Medication list with dosages",
   "Complete medication list with dosages and prescribing physicians"}
PhysicianItems == {"Primary/attending physician contact"}
IllustrationItems == {"Product illustration acknowledgment"}
TravelItems == {"Travel questionnaire", "Foreign travel questionnaire"}
AvocationItems ==
  {"Avocation questionnaire",
   "Avocation questionnaire (frequency, training, safety measures)",
   "Avocation details (frequency, training, equipment)"}
OccupationItems ==
  {"Occupational risk questionnaire", "Occupational duties questionnaire",
   "Detailed occupational questionnaire"}

\* the list has an item of the set
HasItem(list, items) == \E k \in DOMAIN list : list[k] \in items

\* C11: the checklist has the medication-list item exactly when medications
\* is non-empty after trimming, the physician-contact item exactly when
\* doctorNames is non-empty after trimming, the illustration acknowledgment
\* exactly when productType is IUL, and the travel / avocation /
\* occupational questionnaire exactly when that risk flag is Yes; and it is
\* the same list whichever of the six carriers is evaluated.  In
\* evaluateCarrier (buildChecklist) and in each guideline evaluator.
C11_ConditionalChecklistItems ==
  (RuleCall \/ GuideCall) =>
    /\ HasItem(RetChecklist, MedicationItems) <=> TrimTruthy(data.medications)
    /\ HasItem(RetChecklist, PhysicianItems) <=> TrimTruthy(data.doctorNames)
    /\ HasItem(RetChecklist, IllustrationItems) <=> data.productType = Str("IUL")
    /\ HasItem(RetChecklist, TravelItems) <=> data.travelHighRisk = Str("Yes")
    /\ HasItem(RetChecklist, AvocationItems) <=> data.avocationRisk = Str("Yes")
    /\ HasItem(RetChecklist, OccupationItems) <=> data.hazardousOccupation = Str("Yes")
    /\ RuleCall => \A j \in Carriers :
                     evaluateCarrier(CARRIER_RULES[j], data).checklist = ret.checklist
    /\ GuideCall => \A j \in 1..Len(GuidelineCarriers) :
                      evaluate(j, data).documentChecklist = ret.documentChecklist

\* the tag of the code sites that compare a years-since-event field with a
\* lookback
LookbackRule(f) ==
  CASE f = "cancerHistoryYears" -> "cancer"
    [] f = "heartEventYears" -> "heart"
    [] f = "duiYears" -> "dui"
    [] f = "felonyYears" -> "felony"
    [] f = "bankruptcyYears" -> "bankruptcy"

\* absent: undefined, null or the empty string
Absent(v) == v = Undefined \/ v = Null \/ v = Chars(<<>>)

\* the decline reasons / citations and the flags of the returned result
RetDeclines == IF RuleCall THEN ret.decline ELSE ret.citations

IsZero(v) == v = Num(0) \/ v = Chars(<<"0">>)

\* the years-since-event fields that the i-th rule-table entry compares
\* with a lookback in its declineReasons
CarrierLookbackFields(i) ==
  CASE i = 1 -> {"duiYears", "bankruptcyYears"}
    [] i = 2 -> {"cancerHistoryYears"}
    [] i = 5 -> {"felonyYears"}
    [] i = 6 -> {"heartEventYears"}
    [] OTHER -> {}

\* C13: normalizeDataForRules maps the empty string, undefined and null to
\* null and maps 0 (or "0") to the number 0, never the one to the other;
\* so for each lookback rule of each rule-table carrier a value of 0
\* triggers the rule and an absent value does not.
C13_ZeroAndAbsentStayDistinct ==
  RuleCall =>
    LET n == normalizeDataForRules(data)
    IN  /\ \A f \in YearFields :
              /\ Absent(data[f]) <=> n[f] = Null
              /\ IsZero(data[f]) <=> n[f] = Num(0)
        /\ \A f \in CarrierLookbackFields(called.carrier) :
              /\ IsZero(data[f]) => HasRule(ret.decline, LookbackRule(f))
              /\ Absent(data[f]) => ~HasRule(ret.decline, LookbackRule(f))

\* C13 witness: National Life Group's rules ran on DUI 0 years and an
\* empty bankruptcy field: the DUI reason came back, no bankruptcy reason
C13_Witness ==
  /\ RuleCall /\ called.carrier = 1
  /\ data.duiYears = Num(0) /\ data.bankruptcyYears = Chars(<<>>)
  /\ HasRule(ret.decline, "dui") /\ ~HasRule(ret.decline, "bankruptcy")

\* the years-since fields of the stored row
StoredYearFields == YearFields \cup {"tobaccoYears"}

\* C14: the row intake.submit passes to persistence keeps zero and absent
\* apart for every years-since field (tobaccoYears, cancerHistoryYears,
\* heartEventYears, duiYears, felonyYears, bankruptcyYears): an input of 0
\* is stored as 0, and only an absent input is stored as null.
C14_StoredRowKeepsZero ==
  \A k \in DOMAIN db : \A f \in StoredYearFields :
    /\ data[f] = Num(0) => db[k][f] = Num(0)
    /\ db[k][f] = Null => Absent(data[f])

\* the handler runs or ran intake.submit
SubmitCall == called.fn = "intake.submit"

\* the submission being handled has a row in intake_submissions
Saved == \E k \in DOMAIN db : db[k].id = local.id

\* a notification whose content says the submission has been saved
SaysSaved(n) == n.closing = "This submission has been saved to the database for record-keeping."

\* C15: a submission whose notification - saying it has been saved to the
\* database - has been handed over, or for which intake.submit has returned
\* success: true, has its row in intake_submissions by then; also when
\* getDb() yields no database or the insert throws.
C15_SavedBeforeNotifiedAndReturned ==
  /\ (\E k \in DOMAIN notifications : SaysSaved(notifications[k])) => Saved
  /\ (SubmitCall /\ pc = "done" /\ ret.success) => Saved

\* C16: the carrier analysis stays on the server: what intake.submit
\* returns has the fields success, id and emailSent only, and is fixed by
\* the generated id and by whether the notification went out; no two
\* submissions get responses that differ through their underwriting fields
\* or through the analysis.
C16_ResponseHidesAnalysis ==
  (SubmitCall /\ pc = "done") =>
    /\ DOMAIN ret = {"success", "id", "emailSent"}
    /\ ret \in {[success |-> TRUE, id |-> local.id, emailSent |-> b] : b \in BOOLEAN}

\* C16 witness: a submission with DUI 0 years, whose analysis carries
\* National Life Group's DUI reason, was answered with emailSent true
C16_Witness ==
  /\ SubmitCall /\ pc = "done"
  /\ data.duiYears = Num(0)
  /\ \E k \in DOMAIN local.carrierAnalysis : local.carrierAnalysis[k] = "  * DUI within 12 months"
  /\ ret.emailSent

\* the carriers of the rule table that offer IUL
IulCarriers == {i \in Carriers : \E k \in DOMAIN CARRIER_RULES[i].products :
                                   CARRIER_RULES[i].products[k] = "IUL"}

\* the option of the form's Product Type select that stands for IUL
IulOption == "Indexed Universal Life (IUL)"

\* C17: every product type a carrier offers (Term, Whole Life, IUL) is a
\* productType value the intake form can submit, so that an applicant who
\* chooses IUL on the form is evaluated as product offered by National Life
\* Group, Ameritas and Lafayette Life and is given the illustration
\* acknowledgment in the checklist.
C17_OfferedProductsAreFormOptions ==
  /\ \A i \in Carriers : \A k \in DOMAIN CARRIER_RULES[i].products :
        \E o \in DOMAIN ProductTypeOptions :
          ProductTypeOptions[o] = CARRIER_RULES[i].products[k]
  /\ (RuleCall /\ data.productType = Str(IulOption) /\ called.carrier \in IulCarriers)
       => /\ ~HasRule(ret.flags, "product")
          /\ HasItem(ret.checklist, IllustrationItems)

\* the product types of the carrier table
KnownProducts == {Str("Term"), Str("Whole Life"), Str("IUL")}

\* C18: a productType that is none of Term, Whole Life, IUL (undefined
\* included) is reported as not offered by every carrier - the flag
\* "Product not offered" in evaluateCarrier, the product citation in each
\* guideline evaluator - and each of the six evaluations returns its
\* result.
C18_UnknownProductNotOffered ==
  /\ (RuleCall /\ data.productType \notin KnownProducts)
       => /\ DOMAIN ret = {"eligible", "notes", "flags", "decline", "checklist"}
          /\ HasRule(ret.flags, "product") /\ ~ret.eligible
  /\ (GuideCall /\ data.productType \notin KnownProducts)
       => /\ DOMAIN ret = {"status", "citations", "flags", "documentChecklist",
                           "underwritingNotes"}
          /\ HasRule(ret.citations, "product")

\* C18 witness: Transamerica's guideline evaluator ran on a record with no
\* productType and cited the product
C18_Witness ==
  /\ GuideCall /\ called.carrier = 5
  /\ data.productType = Undefined
  /\ HasRule(ret.citations, "product")

\* the tags of the code sites whose threshold comparison reads the field f
ThresholdRules(f) ==
  CASE f = "age" -> {"age"}
    [] f = "coverage" -> {"income_cap", "min_coverage"}
    [] f = "annualIncome" -> {"income_cap"}
    [] f = "bmi" -> {"bmi"}
    [] f = "tobaccoYears" -> {"tobacco_unknown", "tobacco_class"}
    [] f \in YearFields -> {LookbackRule(f)}

NumericFields == {"age", "coverage", "annualIncome", "bmi", "tobaccoYears"} \cup YearFields

\* the field's value is not-a-number (for the BMI string: it parses to
\* not-a-number)
IsNaN(f, v) == IF f = "bmi" THEN parseFloat(v) = NaN ELSE v = NaN

\* C19: when a numeric field (age, coverage, annualIncome, bmi,
\* tobaccoYears or a years-since-event field) is not-a-number, each carrier
\* evaluation still returns its result, and it has no decline reason,
\* citation or flag of a threshold comparison on that field.  In
\* evaluateCarrier and in each guideline evaluator.
C19_NaNTriggersNoThreshold ==
  (RuleCall \/ GuideCall) =>
    /\ RuleCall => DOMAIN ret = {"eligible", "notes", "flags", "decline", "checklist"}
    /\ GuideCall => DOMAIN ret = {"status", "citations", "flags", "documentChecklist",
                                  "underwritingNotes"}
    /\ \A f \in NumericFields :
         IsNaN(f, data[f]) =>
           \A g \in ThresholdRules(f) : ~HasRule(RetDeclines, g) /\ ~HasRule(ret.flags, g)

\* C19 witness: Mutual of Omaha's guideline evaluator ran on a coverage
\* that is not-a-number and an age over its maximum: the age is cited, no
\* coverage rule is
C19_Witness ==
  /\ GuideCall /\ called.carrier = 2
  /\ data.coverage = NaN /\ data.age = Num(76)
  /\ HasRule(ret.citations, "age")
  /\ ~HasRule(ret.citations, "min_coverage") /\ ~HasRule(ret.flags, "income_cap")

\* the natural number a form field holds, 0 for an empty field
FormNat(v) == IF v = Chars(<<>>) THEN 0 ELSE DigitsVal(v.cs)

\* C20: the BMI is (weightLb / heightIn^2) * 703 rounded to one decimal
\* place - a one-decimal number at most 0.05 from the exact value - for
\* every positive integer height and weight (70 and 190 give 27.3), and is
\* empty whenever height or weight is zero or absent.
C20_BmiRoundedToOneDecimal ==
  called.fn = "Home" =>
    LET h == FormNat(data.heightIn)
        w == FormNat(data.weightLb)
        lo == (7030 * w) \div (h * h)
    IN  /\ (h = 0 \/ w = 0) => ret = Chars(<<>>)
        /\ (h > 0 /\ w > 0) =>
              \E n \in {lo, lo + 1} :
                /\ ret = OneDecimal(n)
                /\ 2 * (n * h * h - 7030 * w) <= h * h
                /\ 2 * (7030 * w - n * h * h) <= h * h
        /\ (h = 70 /\ w = 190) => ret = Chars(<<"2", "7", ".", "3">>)

\* C20 witness: height 12 and weight 7, of exact value 34.17..., show 34.2
C20_Witness ==
  /\ called.fn = "Home"
  /\ data.heightIn = Chars(<<"1", "2">>) /\ data.weightLb = Chars(<<"7">>)
  /\ ret = Chars(<<"3", "4", ".", "2">>)

(***************************************************************************)
(* The report.                                                             *)
(***************************************************************************)
RenderCall == called.fn = "generateCarrierAnalysisText"
GuidelineRenderCall == called.fn = "guideline.generateCarrierAnalysisText"

\* the carriers in the order the report is to list them, and their names
\* as the guideline report titles its sections
ReportOrder == <<"National Life Group", "Mutual of Omaha", "Ameritas",
                 "Lafayette Life", "Transamerica", "American Amicable">>
ReportTitles == <<"NATIONAL LIFE GROUP", "MUTUAL OF OMAHA", "AMERITAS",
                  "LAFAYETTE LIFE", "TRANSAMERICA", "AMERICAN AMICABLE">>

\* the positions of the lines of a text that are among the given lines
Positions(text, lines) == {k \in DOMAIN text : text[k] \in lines}
Position(text, line) == CHOOSE k \in DOMAIN text : text[k] = line

\* every position of the set a is before every position of the set b
Before(a, b) == \A x \in a : \A y \in b : x < y

\* The text has one section per heading, the headings in their order and
\* the last section ending before the position end; the section of the
\* i-th heading has its parts in the order of the sequence parts, a part
\* being the set of the lines that can open it, and the n-th part present
\* exactly when present(i)[n] is true.
Sectioned(text, headings, end, parts, present(_)) ==
  /\ \A i \in DOMAIN headings : Cardinality(Positions(text, {headings[i]})) = 1
  /\ \A i \in DOMAIN headings : \A j \in DOMAIN headings :
        i < j => Position(text, headings[i]) < Position(text, headings[j])
  /\ \A n \in DOMAIN parts :
        Before(Positions(text, parts[n]), {end})
        /\ Before({Position(text, headings[1])}, Positions(text, parts[n]))
  /\ \A i \in DOMAIN headings :
        LET lo == Position(text, headings[i])
            hi == IF i < Len(headings) THEN Position(text, headings[i + 1]) ELSE end
            part(n) == {k \in Positions(text, parts[n]) : lo < k /\ k < hi}
        IN  /\ \A n \in DOMAIN parts : Cardinality(part(n)) = IF present(i)[n] THEN 1 ELSE 0
            /\ \A m \in DOMAIN parts : \A n \in DOMAIN parts : m < n => Before(part(m), part(n))

\* C21: the report has exactly one section per carrier, in the order
\* National Life Group, Mutual of Omaha, Ameritas, Lafayette Life,
\* Transamerica, American Amicable; each section has its parts in the order
\* status, citations / decline triggers, flags, underwriting notes,
\* checklist, the status and the checklist always and each of the other
\* three exactly when its list is not empty.
C21_ReportSectionsInOrder ==
  /\ RenderCall =>
        Sectioned(ret, [i \in 1..6 |-> "**" \o ReportOrder[i] \o "**"], Len(ret) + 1,
                  <<{"Status: Potentially Eligible", "Status: Needs Review"},
                    {"Potential Decline Triggers:"}, {"Program Flags:"},
                    {"Underwriting Notes:"}, {"Document Checklist:"}>>,
                  LAMBDA i : LET r == evaluateCarrier(CARRIER_RULES[i], data)
                             IN  <<TRUE, r.decline # <<>>, r.flags # <<>>, r.notes # <<>>, TRUE>>)
  /\ GuidelineRenderCall =>
        Sectioned(ret, [i \in 1..6 |-> "  " \o ReportTitles[i]],
                  Position(ret, "  END OF ANALYSIS") - 1,
                  <<{"STATUS: " \o st : st \in {PotentiallyEligible, NeedsReview, NotEligible}},
                    {"GUIDELINE CITATIONS:"}, {"FLAGS / REVIEW REQUIRED:"},
                    {"UNDERWRITING NOTES:"}, {"REQUIRED DOCUMENTATION:"}>>,
                  LAMBDA i : LET r == evaluate(i, data)
                             IN  <<TRUE, r.citations # <<>>, r.flags # <<>>,
                                   r.underwritingNotes # <<>>, TRUE>>)

\* a guideline report in which one carrier has citations and flags and
\* another has no citations, no flags and no notes
C21_Witness ==
  /\ GuidelineRenderCall
  /\ \E i \in 1..6 : LET r == evaluate(i, data)
                      IN  r.citations # <<>> /\ r.flags # <<>>
  /\ \E i \in 1..6 : LET r == evaluate(i, data)
                      IN  r.citations = <<>> /\ r.flags = <<>> /\ r.underwritingNotes = <<>>

(***************************************************************************)
(* The rule table, the record and the arrays of the results over several   *)
(* calls.                                                                  *)
(***************************************************************************)
\* the arrays of one returned value
ArraysOf(result) == {result[f] : f \in DOMAIN result}

\* C24: after any sequence of evaluateCarrier and
\* generateCarrierAnalysisText calls every field of every CARRIER_RULES
\* entry is what it was when the module was loaded, the record a call was
\* given is unchanged when the call has returned, and the lists of each
\* returned result are arrays of their own: none is an array of the table,
\* of an earlier result or another list of the same result.
C24_TableRecordAndResultsUntouched ==
  /\ \A i \in DOMAIN CARRIER_RULES :
        /\ rules[i].products = CARRIER_RULES[i].products
        /\ rules[i].maxIssueAge = CARRIER_RULES[i].maxIssueAge
        /\ rules[i].minCoverage = CARRIER_RULES[i].minCoverage
        /\ rules[i].maxCoverageMultiplierOfIncome = CARRIER_RULES[i].maxCoverageMultiplierOfIncome
        /\ rules[i].tobaccoLookbackYears = CARRIER_RULES[i].tobaccoLookbackYears
  /\ DOMAIN rules = DOMAIN CARRIER_RULES
  /\ called # NoCall => data = called.arg
  /\ \A j \in DOMAIN results :
        /\ Cardinality(ArraysOf(results[j])) = Cardinality(DOMAIN results[j])
        /\ \A a \in ArraysOf(results[j]) : a > Len(CARRIER_RULES)
        /\ \A k \in DOMAIN results : j # k => ArraysOf(results[j]) \cap ArraysOf(results[k]) = {}

\* the third call of a process is an evaluation that follows a report and
\* an evaluation
C24_Witness ==
  /\ Len(results) = 3
  /\ called.fn = "evaluateCarrier"
  /\ ArraysOf(results[1]) # {}
  /\ ArraysOf(results[2]) = {}
  /\ ret.flags # <<>>

(***************************************************************************)
(* The order of intake.submit and the notifier's failures.                 *)
(***************************************************************************)
\* the insert has been attempted, or skipped for want of a database
InsertSettled == local.insert \in {"skipped", "stored", "threw"}

\* C25: in intake.submit the carrier analysis is generated first, then the
\* insert is attempted (or skipped when there is no database), then the
\* notification is attempted exactly once - also when the insert threw or
\* was skipped; the handler returns success: true with emailSent being
\* what the notification returned, and no failure of the insert or of the
\* notification makes it throw.
C25_SubmitStepsInOrder ==
  SubmitCall =>
    /\ local.carrierAnalysis = generateCarrierAnalysisText(data)
    /\ local.insert = "stored" <=> Saved
    /\ pc \in {"getDb", "insert"} => local.insert = "none" /\ notifications = <<>>
    /\ pc = "notify" => InsertSettled /\ notifications = <<>>
    /\ pc \in {"notifyOwner", "done"} =>
          /\ InsertSettled
          /\ Len(notifications) = 1
          /\ notifications[1].carrierAnalysis = local.carrierAnalysis
    /\ pc = "done" =>
          /\ ret.success
          /\ ~local.emailSent.threw
          /\ ret.emailSent = local.emailSent.value

\* a submission whose insert threw and whose notifier threw has been
\* answered
C25_Witness ==
  /\ SubmitCall
  /\ pc = "done"
  /\ local.insert = "threw"
  /\ local.notifyOwner = "throws"
  /\ ret.success

\* C26: sendIntakeNotification does not let a failure of the notifier
\* through: when notifyOwner throws or rejects it returns false, otherwise
\* it returns the value notifyOwner returned; it calls notifyOwner once.
C26_NotifierFailureIsFalse ==
  (SubmitCall /\ local.notifyOwner # "none") =>
    /\ ~local.emailSent.threw
    /\ local.notifyOwner = "throws" => local.emailSent.value = FALSE
    /\ local.notifyOwner = "true" => local.emailSent.value = TRUE
    /\ local.notifyOwner = "false" => local.emailSent.value = FALSE
    /\ Len(notifications) = 1

\* the notifier threw after the row had been stored
C26_Witness ==
  /\ SubmitCall
  /\ local.notifyOwner = "throws"
  /\ local.insert = "stored"
  /\ ret.emailSent = FALSE

(***************************************************************************)
(* The form's submitted state.                                             *)
(***************************************************************************)
Succeeded == \E k \in DOMAIN mutations : mutations[k].status = "success"

\* the step settles a pending mutation as failed
FailureStep ==
  \E k \in DOMAIN mutations : mutations[k].status = "pending" /\ mutations'[k].status = "error"

\* C27: over any sequence of edits, submit attempts and mutation outcomes
\* of the intake form, submitted is true only after a submit mutation has
\* succeeded, no mutation is issued while firstName, lastName, email,
\* dateOfBirth or state is empty, a failed mutation leaves submitted false,
\* and submitted, once true, stays true.
C27_SubmittedOnlyAfterSuccess ==
  /\ [](submitted => Succeeded)
  /\ [](\A k \in DOMAIN mutations : \A f \in RequiredFields : mutations[k].input[f] # Chars(<<>>))
  /\ [][FailureStep => (submitted' = submitted /\ ~submitted')]_vars
  /\ [][submitted => submitted']_vars

\* the thank-you state reached by a second attempt, after the first failed
C27_Witness ==
  /\ submitted
  /\ Len(mutations) = 2
  /\ mutations[1].status = "error"
  /\ mutations[2].status = "success"

(***************************************************************************)
(* The status and the lists of a guideline evaluation.                     *)
(***************************************************************************)
\* C28: in every guideline evaluator a status other than Potentially
\* Eligible is justified by a list entry: Not Eligible is returned only
\* with a citation, Needs Review only with a flag.
C28_StatusJustifiedByEntry ==
  GuideCall =>
    /\ ret.status = NotEligible => ret.citations # <<>>
    /\ ret.status = NeedsReview => ret.flags # <<>>

\* an evaluation that returned Needs Review with a flag and a citation
C28_Witness ==
  /\ GuideCall
  /\ ret.status = NeedsReview
  /\ ret.flags # <<>>
  /\ ret.citations # <<>>

(***************************************************************************)
(* The two evaluators side by side.                                        *)
(***************************************************************************)
\* C29: for every carrier and every record with numeric age, coverage and
\* income (0 included), evaluateCarrier emits its age flag, its
\* minimum-coverage flag and its product flag exactly when the carrier's
\* guideline evaluator emits its maximum-age citation, its
\* minimum-coverage citation and its product citation; and evaluateCarrier
\* has its age flag exactly when declineReasons has the carrier's
\* 'Age over maximum' reason.
C29_VariantsAgreeOnHardBounds ==
  (RuleCall /\ IsNum(data.age) /\ IsNum(data.coverage) /\ IsNum(data.annualIncome)) =>
    LET g == evaluate(called.carrier, data)
    IN  /\ HasRule(ret.flags, "age") <=> HasRule(g.citations, "age")
        /\ HasRule(ret.flags, "min_coverage") <=> HasRule(g.citations, "min_coverage")
        /\ HasRule(ret.flags, "product") <=> HasRule(g.citations, "product")
        /\ HasRule(ret.flags, "age") <=> HasRule(ret.decline, "age")

(***************************************************************************)
(* The history section of the agent notification.                          *)
(***************************************************************************)
NoHistoryLine == "No significant medical or legal history disclosed."

\* the history section of the notification n has the line
HasLine(n, line) == \E k \in DOMAIN n.history : n.history[k] = line

\* C30: in the notification of a submission the line 'No significant
\* medical or legal history disclosed.' stands exactly when none of
\* cancerHistoryYears, heartEventYears, duiYears, felonyYears and
\* bankruptcyYears is present, and never next to an event line
\* ('... N years ago'), a present value of 0 included.
C30_NoHistoryLineOnlyWithoutEvents ==
  \A k \in DOMAIN notifications :
    /\ HasLine(notifications[k], NoHistoryLine) <=> \A f \in YearFields : ~Present(data[f])
    /\ HasLine(notifications[k], NoHistoryLine) => Len(notifications[k].history) = 1

====
